---- MODULE Spec2Model ----
(***************************************************************************)
(* Shanghai Rummy server (src/server.js): the Game class, the socket       *)
(* handlers that call into it, and the timers it schedules.                *)
(*                                                                         *)
(* A card is a number 1..104 in the order Deck.initialize builds the shoe  *)
(* (deck, suit, rank); 0 stands for JavaScript's undefined, which is what  *)
(* Array.pop returns on an empty array and what an out-of-range index      *)
(* reads.                                                                  *)
(***************************************************************************)
EXTENDS Integers, Sequences, FiniteSets, TLC

VARIABLES
    room,      \* the entry of the games Map: "none", "open" or "deleted"
    game,      \* the Game object (it outlives its Map entry: timers hold it)
    sockets,   \* per socket: playerName and gameCode set by joinGame
    timers,    \* pending setTimeout callbacks, in the order they were set
    ghost,     \* history kept beside the program: who drew in the current turn,
               \* and how many moves, starts and disconnects there have been
    crashed,   \* an exception escaped a timer callback: the process is gone
    last,      \* what the last handler or callback did (its return value)
    probe      \* a validateMeld call on its own: arguments and result

vars == <<room, game, sockets, timers, ghost, crashed, last, probe>>

----------------------------------------------------------------------------
(* Bounds of the model *)

NumShuffles == 3      \* outcomes of Deck.shuffle that are explored
MaxMoves == 5         \* calls by clients that take effect, per round
MaxProbeLen == 4      \* longest card list handed to validateMeld on its own
MaxMeldLen == 5       \* longest index list a client sends to makeMeld
MaxAi == 7            \* largest aiCount a host asks for
MaxBuyMoves == 12     \* calls that take effect at a table that only buys
MaxStarts == 1        \* start requests by the host that are explored
MaxLeaves == 1        \* disconnects that are explored
LeaveBy == 2          \* a client that leaves does so within this many moves of a round
MaxStock == 4         \* cards left in stock by the deal of a full table
MaxStockMoves == 4    \* calls by clients that take effect at a full table
MaxTableMoves == 6    \* calls by clients that take effect at a table of three
MaxScoredRounds == 2  \* rounds a player lost, on a score sheet handed to endGame
MaxDeals == 2         \* start requests by the host of a room that is dealt again
MaxRoomMoves == 3     \* calls by clients that take effect between two deals of a room
MaxLayRounds == 2     \* rounds played through at the table with lay-offs
MaxLayMoves == 6      \* makeMeld calls that are not refused at that table
MaxGone == 2           \* clients that leave a table with an AI seat
MaxLeaveMoves == 2     \* calls by clients that take effect at such a table
MaxAiDiscards == 1     \* discards the AI seat of such a table is followed for
MaxLastMoves == 7      \* calls by the client that take effect in the last round

----------------------------------------------------------------------------
(* Program constants *)

DeckSize == 104
NumRounds == 7
InitialBuys == 3
BaseHand == 10
MaxAiCount == 6

Undefined == 0
AllCards == 1..DeckSize

SUITS == <<"hearts", "diamonds", "clubs", "spades">>
RANKS == <<"A", "2", "3", "4", "5", "6", "7", "8", "9", "10", "J", "Q", "K">>
AI_NAMES == <<"Hiro", "Honey Lemon", "Rosie", "Oreo">>

\* new Card(suit, rank) at position c of Deck.initialize
RankIdx(c) == ((c - 1) % 13) + 1
SuitIdx(c) == (((c - 1) % 52) \div 13) + 1
CopyIdx(c) == ((c - 1) \div 52) + 1
CardRank(c) == RANKS[RankIdx(c)]
CardSuit(c) == SUITS[SuitIdx(c)]

RANK_VALUES(r) == IF r \in {"J", "Q", "K"} THEN 10
                  ELSE IF r = "A" THEN 1
                  ELSE CHOOSE v \in 2..10 : RANKS[v] = r

RANK_SCORES(r) == IF r = "A" THEN 20 ELSE RANK_VALUES(r)

CardValue(c) == RANK_VALUES(CardRank(c))
CardScoreValue(c) == RANK_SCORES(CardRank(c))

ROUND_REQUIREMENTS == <<
    [sets |-> 2, runs |-> 0, minSetSize |-> 3, minRunSize |-> 0],
    [sets |-> 1, runs |-> 1, minSetSize |-> 3, minRunSize |-> 4],
    [sets |-> 0, runs |-> 2, minSetSize |-> 0, minRunSize |-> 4],
    [sets |-> 3, runs |-> 0, minSetSize |-> 3, minRunSize |-> 0],
    [sets |-> 2, runs |-> 1, minSetSize |-> 3, minRunSize |-> 4],
    [sets |-> 1, runs |-> 2, minSetSize |-> 3, minRunSize |-> 4],
    [sets |-> 0, runs |-> 3, minSetSize |-> 0, minRunSize |-> 4] >>

----------------------------------------------------------------------------
(* Sequence helpers (Array methods) *)

Range(s) == {s[i] : i \in 1..Len(s)}

\* s.splice(i, 1) for a 0-based i in range; out of range removes nothing
RemoveAt(s, i) ==
    IF i < 0 \/ i >= Len(s) THEN s
    ELSE SubSeq(s, 1, i) \o SubSeq(s, i + 2, Len(s))

\* s[i] for a 0-based i: undefined outside the array
At(s, i) == IF i >= 0 /\ i < Len(s) THEN s[i + 1] ELSE Undefined

\* s.pop(): the last element, undefined on an empty array
PopValue(s) == IF Len(s) = 0 THEN Undefined ELSE s[Len(s)]
PopRest(s) == IF Len(s) = 0 THEN s ELSE SubSeq(s, 1, Len(s) - 1)

IndexOf(s, x) == IF x \in Range(s)
                 THEN (CHOOSE i \in 1..Len(s) : s[i] = x /\ \A j \in 1..(i - 1) : s[j] # x) - 1
                 ELSE -1

RECURSIVE SumSeq(_)
SumSeq(s) == IF Len(s) = 0 THEN 0 ELSE s[1] + SumSeq(Tail(s))

\* the list as it stands
KeepOrder(s, key) == s

\* [...s].sort((a, b) => key[a] - key[b]): ascending and stable. Each element
\* goes to the place given by the number of elements that sort before it.
SortBy(s, key) ==
    LET n == Len(s)
        place == [i \in 1..n |->
                    1 + Cardinality({j \in 1..n :
                            \/ key[s[j]] < key[s[i]]
                            \/ key[s[j]] = key[s[i]] /\ j < i})]
    IN  [p \in 1..n |-> s[CHOOSE i \in 1..n : place[i] = p]]

----------------------------------------------------------------------------
(* Deck *)

\* Deck.initialize: two decks, suit by suit, rank by rank
InitialDeck == [i \in 1..DeckSize |-> i]

\* Deck.shuffle is a uniform Fisher-Yates shuffle: every permutation of the
\* cards is a possible outcome. The model explores NumShuffles of them, each
\* a permutation given by a sort key (the top of the stock is the END of the
\* sequence, so the highest key is dealt first):
\*   1  rank by rank   (the eight cards of one rank lie together)
\*   2  suit by suit, ace on top, the court cards at the bottom
\*   3  a run of four, a set of four, a run of four, a set of four on top
\*   4  the spades of the second deck and RunDealSecond in turn on top
\*   5.. the order the cards are in (every swap picks j = i)
\* In orders 2 and 3 the second king of spades is the top card.
RankMajorKey == [c \in 0..DeckSize |->
    IF c = Undefined THEN 0 ELSE RankIdx(c) * 8 + (CopyIdx(c) - 1) * 4 + SuitIdx(c)]

MixedKey == [c \in 0..DeckSize |->
    IF c = Undefined THEN 0
    ELSE IF CopyIdx(c) = 1 /\ SuitIdx(c) = 1 /\ RankIdx(c) \in 1..4 THEN 1000 - RankIdx(c)
    ELSE IF CopyIdx(c) = 1 /\ RankIdx(c) = 5 THEN 990 - SuitIdx(c)
    ELSE IF CopyIdx(c) = 1 /\ SuitIdx(c) = 1 /\ RankIdx(c) \in 6..9 THEN 980 - RankIdx(c)
    ELSE IF CopyIdx(c) = 1 /\ RankIdx(c) = 10 THEN 970 - SuitIdx(c)
    ELSE IF c = DeckSize THEN 2000
    ELSE c]

SuitMajorKey == [c \in 0..DeckSize |->
    IF c = Undefined THEN 0
    ELSE IF c = DeckSize THEN 2000
    ELSE IF RankIdx(c) > 10 THEN RankIdx(c)
    ELSE 100 * (CopyIdx(c) * 4 + SuitIdx(c)) + (11 - RankIdx(c))]

\* the cards the second of two players gets from order 4 when the cards go
\* round the table: 9 4 5 6 7 8 of hearts, the four kings of the first deck,
\* 10 and 3 of hearts
RunDealSecond == <<9, 4, 5, 6, 7, 8, 13, 26, 39, 52, 10, 3>>

RunDealKey == [c \in 0..DeckSize |->
    IF c = Undefined THEN 0
    ELSE IF \E i \in 1..Len(RunDealSecond) : RunDealSecond[i] = c
    THEN 1000 - 2 * (CHOOSE i \in 1..Len(RunDealSecond) : RunDealSecond[i] = c)
    ELSE IF c > DeckSize - Len(RunDealSecond) THEN 1001 - 2 * (DeckSize + 1 - c)
    ELSE c]

RunDeal == 4

Shuffled(cards, k) ==
    CASE k = 1 -> SortBy(cards, RankMajorKey)
      [] k = 2 -> SortBy(cards, SuitMajorKey)
      [] k = 3 -> SortBy(cards, MixedKey)
      [] k = RunDeal -> SortBy(cards, RunDealKey)
      [] OTHER -> cards

\* new Deck(): initialize, then shuffle with outcome k
FreshDecks == [k \in 1..3 |-> Shuffled(InitialDeck, k)]
NewDeck(k) == IF k \in DOMAIN FreshDecks THEN FreshDecks[k] ELSE Shuffled(InitialDeck, k)

\* a stock that is never made up again
DeckResetNever(deck, pile, k) == [ok |-> FALSE, cards |-> deck]

\* Deck.reset(discardPile): the new stock, or the old one when the pile is empty
DeckReset(deck, pile, k) ==
    IF Len(pile) > 0 THEN [ok |-> TRUE, cards |-> Shuffled(pile, k)]
    ELSE [ok |-> FALSE, cards |-> deck]

----------------------------------------------------------------------------
(* Game.validateMeld *)

\* cards.every(c => c.<field> === first): "true", "false", or "throw" when the
\* scan reaches an undefined card before it reaches a mismatch
RankOf == [c \in AllCards |-> CardRank(c)]
SuitOf == [c \in AllCards |-> CardSuit(c)]
ValueOf == [c \in AllCards |-> CardValue(c)]

\* a scan that compares card values, not ranks (not the program's)
EveryEqValue(cards, i, field, first) ==
    IF \A j \in i..Len(cards) : ValueOf[cards[j]] = ValueOf[cards[1]]
    THEN "true" ELSE "false"

RECURSIVE EveryEq(_, _, _, _)
EveryEq(cards, i, field, first) ==
    IF i > Len(cards) THEN "true"
    ELSE IF cards[i] = Undefined THEN "throw"
    ELSE IF field[cards[i]] # first THEN "false"
    ELSE EveryEq(cards, i + 1, field, first)

\* a loop that lets equal neighbours pass (not the program's)
ConsecutiveOrEqual(sorted) ==
    \A i \in 2..Len(sorted) :
        ValueOf[sorted[i]] - ValueOf[sorted[i - 1]] \in {0, 1}

\* the loop over the sorted cards: each value is the one before plus 1
Consecutive(sorted) ==
    \A i \in 2..Len(sorted) : ValueOf[sorted[i]] = ValueOf[sorted[i - 1]] + 1

\* validateMeld(cards, type): "true", "false" or "throw" (a TypeError on
\* reading .rank / .suit of undefined)
validateMeld(cards, type) ==
    IF type = "set" THEN
        IF Len(cards) < 3 THEN "false"
        ELSE IF cards[1] = Undefined THEN "throw"
        ELSE EveryEq(cards, 1, RankOf, RankOf[cards[1]])
    ELSE IF type = "run" THEN
        IF Len(cards) < 4 THEN "false"
        ELSE IF cards[1] = Undefined THEN "throw"
        ELSE LET sameSuit == EveryEq(cards, 1, SuitOf, SuitOf[cards[1]])
             IN  IF sameSuit # "true" THEN sameSuit
                 ELSE IF Consecutive(SortBy(cards, ValueOf)) THEN "true" ELSE "false"
    ELSE "false"

----------------------------------------------------------------------------
(* AIPlayer *)

NoPlayer == "<undefined>"     \* players[i] read outside the array

\* the name and difficulty the Game constructor gives AI seat i (0-based)
AiName(i) == IF i >= Len(AI_NAMES)
             THEN AI_NAMES[(i % Len(AI_NAMES)) + 1] \o ToString(i + 1)
             ELSE AI_NAMES[i + 1]

AiDifficulty(i) == <<"easy", "medium", "hard">>[(i % 3) + 1]

Abs(x) == IF x < 0 THEN 0 - x ELSE x

HasUndefined(hand) == \E i \in 1..Len(hand) : hand[i] = Undefined

\* AIPlayer.evaluateCard(card, hand), for defined cards
evaluateCard(card, hand) ==
    LET sameRank == Cardinality({i \in 1..Len(hand) : RankOf[hand[i]] = RankOf[card]})
        near(d) == Cardinality({i \in 1..Len(hand) :
                        /\ SuitOf[hand[i]] = SuitOf[card]
                        /\ Abs(ValueOf[hand[i]] - ValueOf[card]) = d})
    IN  sameRank * 3 + near(1) * 4 + near(2) * 2

\* evaluateCard reads .rank of the card and of every card of a non-empty hand
evaluateCardThrows(card, hand) ==
    Len(hand) > 0 /\ (card = Undefined \/ HasUndefined(hand))

BuyThreshold(difficulty) ==
    CASE difficulty = "easy" -> 7 [] difficulty = "medium" -> 5 [] OTHER -> 4

\* AIPlayer.shouldBuy(card, hand, buys)
shouldBuy(difficulty, card, hand, buys) ==
    IF buys <= 0 THEN FALSE
    ELSE evaluateCard(card, hand) > BuyThreshold(difficulty)

\* AIPlayer.chooseDiscard(hand): the first index of least value
RECURSIVE ChooseDiscardFrom(_, _, _, _)
ChooseDiscardFrom(hand, idx, worstIdx, worstValue) ==
    IF idx >= Len(hand) THEN worstIdx
    ELSE LET value == evaluateCard(hand[idx + 1], RemoveAt(hand, idx))
         IN  IF worstValue < 0 \/ value < worstValue
             THEN ChooseDiscardFrom(hand, idx + 1, idx, value)
             ELSE ChooseDiscardFrom(hand, idx + 1, worstIdx, worstValue)

chooseDiscard(hand) == ChooseDiscardFrom(hand, 0, 0, -1)

chooseDiscardThrows(hand) == Len(hand) >= 2 /\ HasUndefined(hand)

\* the keys of an object filled in hand order, as Object.values lists them:
\* integer-like keys ascending first, then the others in insertion order
RankKeyOrder(hand) ==
    LET present == {RankIdx(hand[i]) : i \in 1..Len(hand)}
        firstPos == [r \in present |-> CHOOSE i \in 1..Len(hand) :
                        RankIdx(hand[i]) = r /\ \A j \in 1..(i - 1) : RankIdx(hand[j]) # r]
        \* "2".."10" are integer keys; "A", "J", "Q", "K" are not
        key == [r \in present |-> IF r \in 2..10 THEN r ELSE 100 + firstPos[r]]
        n == Cardinality(present)
    IN  [k \in 1..n |-> CHOOSE r \in present : Cardinality({q \in present : key[q] < key[r]}) = k - 1]

SuitKeyOrder(hand) ==
    LET present == {SuitIdx(hand[i]) : i \in 1..Len(hand)}
        firstPos == [u \in present |-> CHOOSE i \in 1..Len(hand) :
                        SuitIdx(hand[i]) = u /\ \A j \in 1..(i - 1) : SuitIdx(hand[j]) # u]
        n == Cardinality(present)
    IN  [k \in 1..n |-> CHOOSE u \in present :
            Cardinality({q \in present : firstPos[q] < firstPos[u]}) = k - 1]

\* a set of numbers as an ascending sequence
Ascending(S) ==
    [k \in 1..Cardinality(S) |-> CHOOSE x \in S : Cardinality({y \in S : y < x}) = k - 1]

\* rankGroups[rank], suitGroups[suit]: the 0-based hand indices, ascending
RankGroup(hand, r) == Ascending({i - 1 : i \in {j \in 1..Len(hand) : RankIdx(hand[j]) = r}})
SuitGroup(hand, u) == Ascending({i - 1 : i \in {j \in 1..Len(hand) : SuitIdx(hand[j]) = u}})

\* the inner loop of findBestMeld: from position j of the value-sorted group,
\* take each index whose card continues the run, up to four
RECURSIVE RunFrom(_, _, _, _, _)
RunFrom(hand, group, j, lastValue, run) ==
    IF j > Len(group) \/ Len(run) >= 4 THEN run
    ELSE IF ValueOf[hand[group[j] + 1]] = lastValue + 1
         THEN RunFrom(hand, group, j + 1, ValueOf[hand[group[j] + 1]], Append(run, group[j]))
         ELSE RunFrom(hand, group, j + 1, lastValue, run)

\* stable sort of hand indices by the value of their cards
RECURSIVE InsertIdx(_, _, _)
InsertIdx(hand, s, x) ==
    IF Len(s) = 0 THEN <<x>>
    ELSE IF ValueOf[hand[s[Len(s)] + 1]] <= ValueOf[hand[x + 1]] THEN Append(s, x)
    ELSE Append(InsertIdx(hand, SubSeq(s, 1, Len(s) - 1), x), s[Len(s)])

RECURSIVE SortIdx(_, _)
SortIdx(hand, s) ==
    IF Len(s) <= 1 THEN s
    ELSE InsertIdx(hand, SortIdx(hand, SubSeq(s, 1, Len(s) - 1)), s[Len(s)])

RECURSIVE RunsOfGroup(_, _, _)
RunsOfGroup(hand, group, i) ==
    IF i > Len(group) - 3 THEN <<>>
    ELSE LET run == RunFrom(hand, group, i, ValueOf[hand[group[i] + 1]] - 1, <<>>)
         IN  (IF Len(run) >= 4 THEN <<[type |-> "run", indices |-> run]>> ELSE <<>>)
             \o RunsOfGroup(hand, group, i + 1)

RECURSIVE SetMelds(_, _, _)
SetMelds(hand, order, k) ==
    IF k > Len(order) THEN <<>>
    ELSE LET group == RankGroup(hand, order[k])
         IN  (IF Len(group) >= 3
              THEN <<[type |-> "set", indices |-> SubSeq(group, 1, 3)]>> ELSE <<>>)
             \o SetMelds(hand, order, k + 1)

RECURSIVE RunMelds(_, _, _)
RunMelds(hand, order, k) ==
    IF k > Len(order) THEN <<>>
    ELSE LET group == SuitGroup(hand, order[k])
         IN  (IF Len(group) >= 4 THEN RunsOfGroup(hand, SortIdx(hand, group), 1) ELSE <<>>)
             \o RunMelds(hand, order, k + 1)

NoMeld == [type |-> "none", indices |-> <<>>]

\* AIPlayer.findBestMeld(hand, requirements), for a hand of defined cards;
\* NoMeld is the undefined it returns when it finds nothing
findBestMeld(hand, requirements) ==
    LET sets == SetMelds(hand, RankKeyOrder(hand), 1)
        runs == RunMelds(hand, SuitKeyOrder(hand), 1)
        melds == sets \o runs
    IN  IF requirements.sets > 0 /\ Len(sets) > 0 THEN sets[1]
        ELSE IF requirements.runs > 0 /\ Len(runs) > 0 THEN runs[1]
        ELSE IF Len(melds) > 0 THEN melds[1]
        ELSE NoMeld

----------------------------------------------------------------------------
(* Game: the object and its methods.                                       *)
(*                                                                         *)
(* A method is an operator on st = [g, tm, gh, socks] (the Game object,    *)
(* the pending timers, the history, the sockets) that gives the state the  *)
(* call leaves behind, also when it throws part-way.                       *)

NaN == -1                     \* (i + 1) % 0, and every index computed from it

\* what a method hands back: its state, "ok" / "fail" (success false) /
\* "throw", and the endRound calls it made (winner, and the winner's hand and
\* melds and the round at the call)
Ret(st, res, ends) == [st |-> st, res |-> res, ends |-> ends]

NewPlayerData == [hand |-> <<>>, melds |-> <<>>, buys |-> InitialBuys,
                  scores |-> [i \in 1..NumRounds |-> 0], goneDown |-> FALSE]

NoBuyPhase == [active |-> FALSE, card |-> Undefined, requests |-> <<>>]

\* new Game(gameCode, hostName, aiCount)
NewGame(hostName, aiCount) ==
    [hostName |-> hostName,
     players |-> <<>>,
     aiPlayers |-> [i \in 1..aiCount |-> AiName(i - 1)],
     playerData |-> [n \in {} |-> NewPlayerData],
     currentRound |-> 1,
     currentPlayerIndex |-> 0,
     deck |-> <<>>,             \* null until the first deal (see DeckIsNull)
     discardPile |-> <<>>,
     gameStarted |-> FALSE,
     turnState |-> [hasDrawn |-> FALSE],
     buyPhase |-> NoBuyPhase]

\* this.deck is null from the constructor until dealRound, which runs only
\* after startGame has set gameStarted
DeckIsNull(g) == ~g.gameStarted

HasData(g, name) == name \in DOMAIN g.playerData

SetData(g, name, d) ==
    [g EXCEPT !.playerData =
        [n \in (DOMAIN g.playerData) \cup {name} |-> IF n = name THEN d ELSE g.playerData[n]]]

IsAI(g, name) == name \in Range(g.aiPlayers)

AiDifficultyOf(g, name) == AiDifficulty(IndexOf(g.aiPlayers, name))

\* Game.getCurrentPlayer
getCurrentPlayer(g) ==
    IF g.currentPlayerIndex >= 0 /\ g.currentPlayerIndex < Len(g.players)
    THEN g.players[g.currentPlayerIndex + 1] ELSE NoPlayer

\* the callbacks of executeAITurn hold the data object of their player; when
\* the Map entry of that name is replaced or deleted they keep the old object
Freeze(tm, g, name) ==
    IF ~HasData(g, name) THEN tm
    ELSE [i \in 1..Len(tm) |->
            IF tm[i].kind \in {"ai2", "ai3"} /\ tm[i].player = name /\ ~tm[i].stale
            THEN [tm[i] EXCEPT !.stale = TRUE, !.hand = g.playerData[name].hand]
            ELSE tm[i]]

\* Game.initPlayerData
initPlayerData(st, name) ==
    [st EXCEPT !.g = SetData(st.g, name, NewPlayerData),
               !.tm = Freeze(st.tm, st.g, name)]

RECURSIVE AddAiSeats(_, _)
AddAiSeats(st, i) ==
    IF i > Len(st.g.aiPlayers) THEN st
    ELSE LET aiName == st.g.aiPlayers[i]
             pushed == [st EXCEPT !.g.players = Append(st.g.players, aiName)]
         IN  AddAiSeats(initPlayerData(pushed, aiName), i + 1)

\* Game.addPlayer
addPlayer(st, name) ==
    IF name \in Range(st.g.players) THEN [st |-> st, ok |-> FALSE]
    ELSE LET pushed == [st EXCEPT !.g.players = Append(st.g.players, name)]
             own == initPlayerData(pushed, name)
         IN  [st |-> IF name = st.g.hostName THEN AddAiSeats(own, 1) ELSE own,
              ok |-> TRUE]

\* n calls of deck.deal(): undefined once the stock is empty
DealN(deck, n) ==
    [hand |-> [i \in 1..n |-> IF i <= Len(deck) THEN deck[Len(deck) + 1 - i] ELSE Undefined],
     deck |-> IF n >= Len(deck) THEN <<>> ELSE SubSeq(deck, 1, Len(deck) - n)]

\* the players.forEach of dealRound from player i on
RECURSIVE DealPlayers(_, _)
DealPlayers(g, i) ==
    IF i > Len(g.players) THEN [g |-> g, throw |-> FALSE]
    ELSE IF ~HasData(g, g.players[i]) THEN [g |-> g, throw |-> TRUE]
    ELSE LET dealt == DealN(g.deck, BaseHand + g.currentRound)
             data == [g.playerData[g.players[i]] EXCEPT
                        !.hand = dealt.hand, !.melds = <<>>,
                        !.buys = InitialBuys, !.goneDown = FALSE]
         IN  DealPlayers([SetData(g, g.players[i], data) EXCEPT !.deck = dealt.deck], i + 1)

\* Game.dealRound, the shuffle of the new Deck having outcome k
dealRound(st, k) ==
    LET \* the starting player and the turn state, once the hands are dealt
        Turn(g2) ==
            [st EXCEPT
                !.g = [g2 EXCEPT
                    !.currentPlayerIndex =
                        IF g2.currentRound = 1 THEN 0
                        ELSE IF Len(g2.players) = 0 THEN NaN
                        ELSE (g2.currentRound - 1) % Len(g2.players),
                    !.turnState = [hasDrawn |-> FALSE]],
                !.gh.moves = 0, !.gh.drawer = NoPlayer]
        Hands(dealt) ==
            IF dealt.throw THEN [st |-> [st EXCEPT !.g = dealt.g], throw |-> TRUE]
            ELSE [st |-> Turn(dealt.g), throw |-> FALSE]
        \* the new deck: its top card starts the discard pile
        Stock(fresh) ==
            Hands(DealPlayers([st.g EXCEPT !.deck = PopRest(fresh),
                                           !.discardPile = <<PopValue(fresh)>>], 1))
    IN  Stock(NewDeck(k))

AiTimer(kind, player) == [kind |-> kind, player |-> player, stale |-> FALSE, hand |-> <<>>]
BuyTimer == [kind |-> "buy", player |-> NoPlayer, stale |-> FALSE, hand |-> <<>>]

\* Game.scheduleAITurn
scheduleAITurn(st) ==
    LET player == getCurrentPlayer(st.g)
    IN  IF ~IsAI(st.g, player) THEN st
        ELSE [st EXCEPT !.tm = Append(st.tm, AiTimer("ai1", player))]

\* Game.nextTurn
nextTurn(st) ==
    LET g == st.g
        idx == IF g.currentPlayerIndex = NaN \/ Len(g.players) = 0 THEN NaN
               ELSE (g.currentPlayerIndex + 1) % Len(g.players)
        st1 == [st EXCEPT !.g.currentPlayerIndex = idx,
                          !.g.turnState = [hasDrawn |-> FALSE],
                          !.gh.drawer = NoPlayer]
    IN  IF IsAI(st1.g, getCurrentPlayer(st1.g)) THEN scheduleAITurn(st1) ELSE st1

\* a start that does not count the players (not the program's)
startGameAlone(st, k) ==
    LET Dealt(dealt) ==
            IF dealt.throw THEN Ret(dealt.st, "throw", <<>>)
            ELSE Ret(IF IsAI(dealt.st.g, getCurrentPlayer(dealt.st.g))
                     THEN scheduleAITurn(dealt.st) ELSE dealt.st,
                     "ok", <<>>)
    IN  Dealt(dealRound([st EXCEPT !.g.gameStarted = TRUE], k))

\* Game.startGame
startGame(st, k) ==
    LET Dealt(dealt) ==
            IF dealt.throw THEN Ret(dealt.st, "throw", <<>>)
            ELSE Ret(IF IsAI(dealt.st.g, getCurrentPlayer(dealt.st.g))
                     THEN scheduleAITurn(dealt.st) ELSE dealt.st,
                     "ok", <<>>)
    IN  IF Len(st.g.players) < 2 THEN Ret(st, "fail", <<>>)
        ELSE Dealt(dealRound([st EXCEPT !.g.gameStarted = TRUE], k))

\* hand.reduce((sum, card) => sum + card.getScoreValue(), 0): Card has a
\* scoreValue field and no getScoreValue method, so the first card throws
HandScore(hand) == [throw |-> Len(hand) > 0, score |-> 0]

SetScore(g, name, score) ==
    [g EXCEPT !.playerData[name].scores[g.currentRound] = score]

\* the players.forEach of endRound from player i on
RECURSIVE ScorePlayers(_, _, _)
ScorePlayers(g, winner, i) ==
    IF i > Len(g.players) THEN [g |-> g, throw |-> FALSE]
    ELSE LET player == g.players[i] IN
         IF ~HasData(g, player) THEN [g |-> g, throw |-> TRUE]
         ELSE IF player = winner THEN ScorePlayers(SetScore(g, player, 0), winner, i + 1)
         ELSE LET sc == HandScore(g.playerData[player].hand)
              IN  IF sc.throw THEN [g |-> g, throw |-> TRUE]
                  ELSE ScorePlayers(SetScore(g, player, sc.score), winner, i + 1)

\* Game.endRound
endRound(st, winner, k) ==
    LET Dealt(dealt) == [st |-> dealt.st, throw |-> dealt.throw, gameEnded |-> FALSE]
        Scored(scored) ==
            IF scored.throw
            THEN [st |-> [st EXCEPT !.g = scored.g], throw |-> TRUE, gameEnded |-> FALSE]
            ELSE IF scored.g.currentRound >= NumRounds
            THEN [st |-> [st EXCEPT !.g = scored.g], throw |-> FALSE, gameEnded |-> TRUE]
            ELSE Dealt(dealRound([st EXCEPT !.g = [scored.g EXCEPT !.currentRound = @ + 1]], k))
    IN  Scored(ScorePlayers(st.g, winner, 1))

\* Game.endGame: the totals in a Map filled in the order of the player list,
\* its entries sorted by total
endGame(g) ==
    LET total == [n \in Range(g.players) |-> SumSeq(g.playerData[n].scores)]
        Results(sorted) ==
            [winner |-> sorted[1],
             winnerScore |-> total[sorted[1]],
             finalStandings |-> [i \in 1..Len(sorted) |-> <<sorted[i], total[sorted[i]]>>],
             gameComplete |-> TRUE]
    IN  Results(SortBy(g.players, total))

\* a snapshot that lists the hands of the players, not their sizes (not the
\* program's)
getGameStateOpenHands(g, player) ==
    [players |-> g.players,
     currentPlayer |-> getCurrentPlayer(g),
     currentRound |-> g.currentRound,
     roundRequirements |-> ROUND_REQUIREMENTS[g.currentRound],
     hand |-> g.playerData[player].hand,
     melds |-> g.playerData[player].melds,
     allPlayerMelds |-> [p \in Range(g.players) |-> g.playerData[p].melds],
     handCounts |-> [p \in Range(g.players) |-> g.playerData[p].hand],
     scores |-> [p \in Range(g.players) |-> g.playerData[p].scores],
     buysRemaining |-> g.playerData[player].buys,
     discardTop |-> IF Len(g.discardPile) = 0 THEN Undefined
                    ELSE g.discardPile[Len(g.discardPile)],
     turnState |-> g.turnState,
     hasGoneDown |-> g.playerData[player].goneDown,
     aiPlayers |-> g.aiPlayers]

\* Game.getGameState, for a player with data in a game whose players all
\* have data (the room's code, which never changes, is left out)
getGameState(g, player) ==
    [players |-> g.players,
     currentPlayer |-> getCurrentPlayer(g),
     currentRound |-> g.currentRound,
     roundRequirements |-> ROUND_REQUIREMENTS[g.currentRound],
     hand |-> g.playerData[player].hand,
     melds |-> g.playerData[player].melds,
     allPlayerMelds |-> [p \in Range(g.players) |-> g.playerData[p].melds],
     handCounts |-> [p \in Range(g.players) |-> Len(g.playerData[p].hand)],
     scores |-> [p \in Range(g.players) |-> g.playerData[p].scores],
     buysRemaining |-> g.playerData[player].buys,
     \* this.discardPile[length - 1] || null
     discardTop |-> IF Len(g.discardPile) = 0 THEN Undefined
                    ELSE g.discardPile[Len(g.discardPile)],
     turnState |-> g.turnState,
     hasGoneDown |-> g.playerData[player].goneDown,
     aiPlayers |-> g.aiPlayers]

EndCall(g, winner) ==
    [winner |-> winner, round |-> g.currentRound,
     hand |-> g.playerData[winner].hand, melds |-> g.playerData[winner].melds]

\* Game.drawCard, a recycling shuffle having outcome k
drawCard(st, player, k) ==
    LET g == st.g IN
    IF getCurrentPlayer(g) # player \/ g.turnState.hasDrawn THEN Ret(st, "fail", <<>>)
    ELSE IF DeckIsNull(g) THEN Ret(st, "throw", <<>>)
    ELSE LET empty == Len(g.deck) = 0
             top == PopValue(g.discardPile)
             reset == DeckReset(g.deck, PopRest(g.discardPile), k)
         IN  IF empty /\ ~reset.ok
             THEN Ret([st EXCEPT !.g.discardPile = PopRest(g.discardPile)], "fail", <<>>)
             ELSE LET g1 == IF empty
                            THEN [g EXCEPT !.deck = reset.cards, !.discardPile = <<top>>]
                            ELSE g
                  IN  IF ~HasData(g1, player) THEN Ret([st EXCEPT !.g = g1], "throw", <<>>)
                      ELSE Ret([st EXCEPT
                                  !.g = [g1 EXCEPT
                                      !.playerData[player].hand = Append(@, PopValue(g1.deck)),
                                      !.deck = PopRest(g1.deck),
                                      !.turnState.hasDrawn = TRUE],
                                  !.gh.drawer = player],
                               "ok", <<>>)

\* Game.pickUpDiscard
pickUpDiscard(st, player) ==
    LET g == st.g IN
    IF getCurrentPlayer(g) # player \/ g.turnState.hasDrawn \/ Len(g.discardPile) = 0
    THEN Ret(st, "fail", <<>>)
    ELSE LET card == PopValue(g.discardPile)
             popped == [g EXCEPT !.discardPile = PopRest(g.discardPile)]
         IN  IF ~HasData(g, player) THEN Ret([st EXCEPT !.g = popped], "throw", <<>>)
             ELSE Ret([st EXCEPT
                         !.g = [popped EXCEPT
                             !.playerData[player].hand = Append(@, card),
                             !.turnState.hasDrawn = TRUE],
                         !.gh.drawer = player],
                      \* the message reads card.display
                      IF card = Undefined THEN "throw" ELSE "ok", <<>>)

\* indices.sort((a, b) => b - a).forEach(i => hand.splice(i, 1))
RECURSIVE SpliceAll(_, _, _)
SpliceAll(hand, sortedDesc, i) ==
    IF i > Len(sortedDesc) THEN hand
    ELSE SpliceAll(RemoveAt(hand, sortedDesc[i]), sortedDesc, i + 1)

Negated == [i \in (0 - 64)..64 |-> 0 - i]
SortDesc(indices) == SortBy(indices, Negated)

\* the melds that count towards the round's contract
CountMelds(melds, type, minSize) ==
    Cardinality({i \in 1..Len(melds) : melds[i].type = type /\ Len(melds[i].cards) >= minSize})

\* a check that is content with either half of the contract (not the program's)
MeetsSetsOrRuns(melds, round) ==
    LET req == ROUND_REQUIREMENTS[round]
    IN  \/ CountMelds(melds, "set", req.minSetSize) >= req.sets
        \/ CountMelds(melds, "run", req.minRunSize) >= req.runs

\* the check of makeMeld that sets goneDown
MeetsRequirements(melds, round) ==
    LET req == ROUND_REQUIREMENTS[round]
    IN  /\ CountMelds(melds, "set", req.minSetSize) >= req.sets
        /\ CountMelds(melds, "run", req.minRunSize) >= req.runs

\* Game.makeMeld, a deal it leads to having shuffle outcome k
makeMeld(st, player, indices, type, k) ==
    LET g == st.g
        Ended(ended, call) == Ret(ended.st, IF ended.throw THEN "throw" ELSE "ok", <<call>>)
        \* the round end check, the meld being laid down
        Laid(st1) ==
            IF Len(st1.g.playerData[player].hand) = 0 /\ st1.g.playerData[player].goneDown
            THEN Ended(endRound(st1, player, k), EndCall(st1.g, player))
            ELSE Ret(st1, "ok", <<>>)
        \* the cards leave the hand, the meld is appended, goneDown is set
        Lay(data, cards, melds1) ==
            Laid([st EXCEPT !.g.playerData[player] =
                    [data EXCEPT
                        !.hand = SpliceAll(data.hand, SortDesc(indices), 1),
                        !.melds = melds1,
                        !.goneDown = data.goneDown \/ MeetsRequirements(melds1, g.currentRound)]])
        Checked(data, cards, valid) ==
            IF valid = "throw" THEN Ret(st, "throw", <<>>)
            ELSE IF valid = "false" THEN Ret(st, "fail", <<>>)
            ELSE Lay(data, cards, Append(data.melds, [type |-> type, cards |-> cards]))
        Picked(data, cards) == Checked(data, cards, validateMeld(cards, type))
        Of(data) == Picked(data, [i \in 1..Len(indices) |-> At(data.hand, indices[i])])
    IN  IF getCurrentPlayer(g) # player THEN Ret(st, "fail", <<>>)
        ELSE IF ~HasData(g, player) THEN Ret(st, "throw", <<>>)
        ELSE Of(g.playerData[player])

\* the socket of a player: playerSockets.get(name), while it is connected
HasSocket(st, name) == \E x \in DOMAIN st.socks : st.socks[x].playerName = name

\* Game.broadcastGameState throws when getGameState reads the data of a listed
\* player that has none
broadcastThrows(st) ==
    /\ \E p \in Range(st.g.players) : ~IsAI(st.g, p) /\ HasSocket(st, p)
    /\ \E p \in Range(st.g.players) : ~HasData(st.g, p)

\* Game.endBuyPhase
endBuyPhase(st) ==
    LET Told(st1) == Ret(st1, IF broadcastThrows(st1) THEN "throw" ELSE "ok", <<>>)
    IN  Told(nextTurn([st EXCEPT !.g.buyPhase = NoBuyPhase]))

\* requests.set(player, wants) on the insertion-ordered Map
MapSet(requests, player, wants) ==
    IF \E i \in 1..Len(requests) : requests[i].player = player
    THEN [i \in 1..Len(requests) |->
            IF requests[i].player = player THEN [requests[i] EXCEPT !.wants = wants]
            ELSE requests[i]]
    ELSE Append(requests, [player |-> player, wants |-> wants])

\* the buyers.forEach of startBuyPhase from buyer i on
RECURSIVE AskBuyers(_, _, _, _)
AskBuyers(g, buyers, card, i) ==
    IF i > Len(buyers) THEN [g |-> g, throw |-> FALSE]
    ELSE LET player == buyers[i]
             data == g.playerData[player]
         IN  IF ~IsAI(g, player) THEN AskBuyers(g, buyers, card, i + 1)
             ELSE IF evaluateCardThrows(card, data.hand) THEN [g |-> g, throw |-> TRUE]
             ELSE AskBuyers(
                    [g EXCEPT !.buyPhase.requests =
                        MapSet(@, player,
                               shouldBuy(AiDifficultyOf(g, player), card, data.hand, data.buys))],
                    buyers, card, i + 1)

\* players.filter(p => p !== current && playerData.get(p).buys > 0)
RECURSIVE EligibleBuyers(_, _)
EligibleBuyers(g, i) ==
    IF i > Len(g.players) THEN <<>>
    ELSE (IF g.players[i] # getCurrentPlayer(g) /\ g.playerData[g.players[i]].buys > 0
          THEN <<g.players[i]>> ELSE <<>>) \o EligibleBuyers(g, i + 1)

\* Game.startBuyPhase
startBuyPhase(st, card) ==
    LET Asked(asked) ==
            IF asked.throw THEN Ret([st EXCEPT !.g = asked.g], "throw", <<>>)
            ELSE Ret([st EXCEPT !.g = asked.g, !.tm = Append(st.tm, BuyTimer)], "ok", <<>>)
        Buyers(g1, buyers) ==
            IF Len(buyers) = 0 THEN endBuyPhase([st EXCEPT !.g = g1])
            ELSE Asked(AskBuyers(g1, buyers, card, 1))
        Opened(g1) ==
            IF \E p \in Range(g1.players) : p # getCurrentPlayer(g1) /\ ~HasData(g1, p)
            THEN Ret([st EXCEPT !.g = g1], "throw", <<>>)
            ELSE Buyers(g1, EligibleBuyers(g1, 1))
    IN  Opened([st.g EXCEPT !.buyPhase = [active |-> TRUE, card |-> card, requests |-> <<>>]])

\* Game.discardCard
discardCard(st, player, index, k) ==
    LET g == st.g
        Ended(ended, call) == Ret(ended.st, IF ended.throw THEN "throw" ELSE "ok", <<call>>)
        \* the card is on the pile: the message, the round end check, the buy phase
        Thrown(st1, card) ==
            \* the message reads card.display
            IF card = Undefined THEN Ret(st1, "throw", <<>>)
            ELSE IF Len(st1.g.playerData[player].hand) = 0 /\ st1.g.playerData[player].goneDown
            THEN Ended(endRound(st1, player, k), EndCall(st1.g, player))
            ELSE startBuyPhase(st1, card)
    IN  IF getCurrentPlayer(g) # player \/ ~g.turnState.hasDrawn THEN Ret(st, "fail", <<>>)
        ELSE IF ~HasData(g, player) THEN Ret(st, "throw", <<>>)
        ELSE IF index < 0 \/ index >= Len(g.playerData[player].hand) THEN Ret(st, "fail", <<>>)
        ELSE Thrown([st EXCEPT !.g.playerData[player].hand = RemoveAt(@, index),
                               !.g.discardPile = Append(@, g.playerData[player].hand[index + 1])],
                    g.playerData[player].hand[index + 1])

\* the requesters that want the card, in the order of the requests Map
RECURSIVE Wanting(_, _)
Wanting(requests, i) ==
    IF i > Len(requests) THEN <<>>
    ELSE (IF requests[i].wants THEN <<requests[i].player>> ELSE <<>>) \o Wanting(requests, i + 1)

\* Game.processBuyPhase
processBuyPhase(st) ==
    LET g == st.g
        buyers == Wanting(g.buyPhase.requests, 1)
    IN  IF Len(buyers) = 0 THEN endBuyPhase(st)
        ELSE LET buyer == buyers[1] IN
             IF ~HasData(g, buyer) THEN Ret(st, "throw", <<>>)
             ELSE LET g1 == [g EXCEPT
                                !.playerData[buyer].hand =
                                    Append(Append(@, PopValue(g.discardPile)), PopValue(g.deck)),
                                !.playerData[buyer].buys = @ - 1,
                                !.discardPile = PopRest(g.discardPile),
                                !.deck = PopRest(g.deck)]
                  IN  endBuyPhase([st EXCEPT !.g = g1])

----------------------------------------------------------------------------
(* The AI turn: scheduleAITurn's callback and the two nested callbacks of  *)
(* executeAITurn                                                           *)

\* data.hand as the callback sees it: the hand of the data object it holds
AiHand(st, t) == IF t.stale THEN t.hand ELSE st.g.playerData[t.player].hand

\* the callback of scheduleAITurn, with executeAITurn up to its setTimeout;
\* pick: Math.random() < 0.3
aiTurnCallback(st, t, pick, k) ==
    LET g == st.g IN
    IF ~(getCurrentPlayer(g) = t.player /\ g.gameStarted) THEN Ret(st, "fail", <<>>)
    ELSE IF ~HasData(g, t.player) THEN Ret(st, "fail", <<>>)
    ELSE LET Drawn(drawn) ==
                 IF drawn.res = "throw" THEN drawn
                 ELSE Ret([drawn.st EXCEPT !.tm = Append(@, AiTimer("ai2", t.player))],
                          "ok", <<>>)
         IN  Drawn(IF pick /\ Len(g.discardPile) > 0
                   THEN pickUpDiscard(st, t.player)
                   ELSE drawCard(st, t.player, k))

\* the while (meldMade) loop of the meld callback
RECURSIVE AiMeldLoop(_, _, _, _, _)
AiMeldLoop(st, t, req, k, ends) ==
    LET Made(made) ==
            IF made.res = "throw" THEN Ret(made.st, "throw", ends \o made.ends)
            ELSE IF made.res = "ok" THEN AiMeldLoop(made.st, t, req, k, ends \o made.ends)
            ELSE Ret(made.st, "ok", ends)
        Found(meld) ==
            IF meld = NoMeld THEN Ret(st, "ok", ends)
            ELSE Made(makeMeld(st, t.player, meld.indices, meld.type, k))
        Holding(hand) ==
            IF HasUndefined(hand) THEN Ret(st, "throw", ends)
            ELSE Found(findBestMeld(hand, req))
    IN  Holding(AiHand(st, t))

\* the meld callback (setTimeout 1000)
aiMeldCallback(st, t, k) ==
    LET Melded(melded) ==
            IF melded.res = "throw" THEN melded
            ELSE Ret([melded.st EXCEPT
                        !.tm = Append(@, [AiTimer("ai3", t.player) EXCEPT
                                             !.stale = t.stale, !.hand = t.hand])],
                     "ok", melded.ends)
    IN  Melded(AiMeldLoop(st, t, ROUND_REQUIREMENTS[st.g.currentRound], k, <<>>))

\* the discard callback (setTimeout 500)
aiDiscardCallback(st, t, k) ==
    LET Done(done) == Ret(done.st, IF done.res = "throw" THEN "throw" ELSE "ok", done.ends)
        Holding(hand) ==
            IF chooseDiscardThrows(hand) THEN Ret(st, "throw", <<>>)
            ELSE Done(discardCard(st, t.player, chooseDiscard(hand), k))
    IN  Holding(AiHand(st, t))

\* setTimeout delays in ms: the least, and the bound above (getDelay adds
\* Math.random() * 1000; the other delays are exact)
MinDelay(g, t) ==
    CASE t.kind = "buy" -> 3000
      [] t.kind = "ai2" -> 1000
      [] t.kind = "ai3" -> 500
      [] OTHER -> LET d == AiDifficultyOf(g, t.player)
                  IN  IF d = "easy" THEN 3000 ELSE IF d = "medium" THEN 2000 ELSE 1000

MaxDelay(g, t) == IF t.kind = "ai1" THEN MinDelay(g, t) + 1000 ELSE MinDelay(g, t)

\* timer i can be the next to fire: no timer set before it is certain to
\* expire first (equal expiry fires in the order set)
Fireable(g, tm, i) ==
    \A j \in 1..(i - 1) : MinDelay(g, tm[i]) < MaxDelay(g, tm[j])

fireTimer(st, t, pick, k) ==
    CASE t.kind = "buy" -> processBuyPhase(st)
      [] t.kind = "ai1" -> aiTurnCallback(st, t, pick, k)
      [] t.kind = "ai2" -> aiMeldCallback(st, t, k)
      [] OTHER -> aiDiscardCallback(st, t, k)

----------------------------------------------------------------------------
(* The variant of the server with lay-offs (unnamed/part_003).  Its cards, *)
(* deck, round requirements and validateMeld are those of server.js; its   *)
(* Game keeps hands, melds, buys and scores in four Maps, which are the    *)
(* fields of playerData here, and has no goneDown flag.                    *)

\* Game.dealRound of the variant: the cards go round the table one at a
\* time, the discard pile is started after the hands
dealRound3(g, k) ==
    LET n == Len(g.players)
        perPlayer == BaseHand + g.currentRound
        Dealt(deck) ==
            [g EXCEPT
                !.playerData =
                    [p \in Range(g.players) |->
                        [hand |-> [j \in 1..perPlayer |->
                                      At(deck, Len(deck) - ((j - 1) * n + IndexOf(g.players, p)) - 1)],
                         melds |-> <<>>,
                         buys |-> InitialBuys,
                         scores |-> g.playerData[p].scores]],
                !.discardPile = <<At(deck, Len(deck) - perPlayer * n - 1)>>,
                !.deck = SubSeq(deck, 1, Len(deck) - perPlayer * n - 1),
                !.currentPlayerIndex = (g.currentRound - 1) % n,
                !.turnState = [hasDrawn |-> FALSE]]
    IN  Dealt(NewDeck(k))

\* Game.endRound of the variant (Card.getScoreValue exists there): every
\* hand but the winner's is scored, then the next round is dealt or the game
\* ends
endRound3(g, winner, k) ==
    LET Score(p) == IF p = winner THEN 0
                    ELSE SumSeq([i \in 1..Len(g.playerData[p].hand) |->
                                    CardScoreValue(g.playerData[p].hand[i])])
        scored == [g EXCEPT !.playerData =
                        [p \in DOMAIN g.playerData |->
                            IF p \in Range(g.players)
                            THEN [g.playerData[p] EXCEPT !.scores[g.currentRound] = Score(p)]
                            ELSE g.playerData[p]]]
    IN  IF g.currentRound >= NumRounds THEN scored
        ELSE dealRound3([scored EXCEPT !.currentRound = @ + 1], k)

\* a check that every player passes (not the program's)
MeetsAlways(g, name) == TRUE

\* Game.validatePlayerMeetsRoundRequirements: playerMelds.get(name) || []
validatePlayerMeetsRoundRequirements(g, name) ==
    MeetsRequirements(IF HasData(g, name) THEN g.playerData[name].melds ELSE <<>>,
                      g.currentRound)

\* Game.makeMeld of the variant; validateMeld sorts the cards of a run of one
\* suit in place, and the meld keeps them in that order
makeMeld3(st, player, indices, type, k) ==
    LET g == st.g
        Out(st1) ==
            IF Len(st1.g.playerData[player].hand) # 0 THEN Ret(st1, "ok", <<>>)
            ELSE IF ~validatePlayerMeetsRoundRequirements(st1.g, player) THEN Ret(st1, "fail", <<>>)
            ELSE Ret([st1 EXCEPT !.g = endRound3(st1.g, player, k)], "ok",
                     <<[winner |-> player, round |-> g.currentRound]>>)
        Lay(hand, cards) ==
            Out([st EXCEPT !.g.playerData[player] =
                    [@ EXCEPT !.hand = SpliceAll(hand, SortDesc(indices), 1),
                              !.melds = Append(@, [type |-> type, cards |-> cards])]])
        Checked(hand, cards, valid) ==
            IF valid = "throw" THEN Ret(st, "throw", <<>>)
            ELSE IF valid = "false" THEN Ret(st, "fail", <<>>)
            ELSE Lay(hand, IF type = "run" THEN SortBy(cards, ValueOf) ELSE cards)
        Of(hand) ==
            Checked(hand, [i \in 1..Len(indices) |-> At(hand, indices[i])],
                    validateMeld([i \in 1..Len(indices) |-> At(hand, indices[i])], type))
    IN  IF getCurrentPlayer(g) # player THEN Ret(st, "fail", <<>>)
        ELSE IF ~HasData(g, player) THEN Ret(st, "throw", <<>>)
        ELSE Of(g.playerData[player].hand)

\* a check that lets every card onto every meld (not the program's)
canLayOffAny(card, meld) == TRUE

\* Game.canLayOffCard
canLayOffCard(card, meld) ==
    IF meld.type = "set"
    THEN \A i \in 1..Len(meld.cards) : RankOf[meld.cards[i]] = RankOf[card]
    ELSE IF meld.type = "run"
    THEN /\ SuitOf[card] = SuitOf[meld.cards[1]]
         /\ LET values == {ValueOf[meld.cards[i]] : i \in 1..Len(meld.cards)}
                lowest == CHOOSE v \in values : \A w \in values : v <= w
                highest == CHOOSE v \in values : \A w \in values : v >= w
            IN  ValueOf[card] = lowest - 1 \/ ValueOf[card] = highest + 1
    ELSE FALSE

\* a lay-off that never ends the round (not the program's)
layOffCardOnly(st, player, cardIndex, target, meldIndex, k) ==
    LET g == st.g IN
    IF getCurrentPlayer(g) # player THEN Ret(st, "fail", <<>>)
    ELSE IF ~validatePlayerMeetsRoundRequirements(g, player) THEN Ret(st, "fail", <<>>)
    ELSE IF cardIndex < 0 \/ cardIndex >= Len(g.playerData[player].hand) THEN Ret(st, "fail", <<>>)
    ELSE IF ~HasData(g, target) \/ meldIndex < 0 \/ meldIndex >= Len(g.playerData[target].melds)
    THEN Ret(st, "fail", <<>>)
    ELSE IF ~canLayOffCard(g.playerData[player].hand[cardIndex + 1],
                           g.playerData[target].melds[meldIndex + 1])
    THEN Ret(st, "fail", <<>>)
    ELSE Ret([st EXCEPT
                !.g.playerData[target].melds[meldIndex + 1].cards =
                    Append(@, g.playerData[player].hand[cardIndex + 1]),
                !.g.playerData[player].hand = RemoveAt(@, cardIndex)], "ok", <<>>)

\* Game.layOffCard
layOffCard(st, player, cardIndex, target, meldIndex, k) ==
    LET g == st.g
        \* the card is on the meld: the going out check
        Laid(st1, card) ==
            IF Len(st1.g.playerData[player].hand) # 0 THEN Ret(st1, "ok", <<>>)
            ELSE IF ~validatePlayerMeetsRoundRequirements(st1.g, player)
            THEN \* hand.splice(cardIndex, 0, card); targetMeld.cards.pop()
                 Ret([st1 EXCEPT
                        !.g.playerData[player].hand =
                            SubSeq(@, 1, cardIndex) \o <<card>> \o SubSeq(@, cardIndex + 1, Len(@)),
                        !.g.playerData[target].melds[meldIndex + 1].cards = PopRest(@)],
                     "fail", <<>>)
            ELSE Ret([st1 EXCEPT !.g = endRound3(st1.g, player, k)], "ok",
                     <<[winner |-> player, round |-> g.currentRound]>>)
        Lay(card) ==
            Laid([st EXCEPT
                    !.g.playerData[player].hand = RemoveAt(@, cardIndex),
                    !.g.playerData[target].melds[meldIndex + 1].cards = Append(@, card)],
                 card)
    IN  IF getCurrentPlayer(g) # player THEN Ret(st, "fail", <<>>)
        ELSE IF ~validatePlayerMeetsRoundRequirements(g, player) THEN Ret(st, "fail", <<>>)
        ELSE IF cardIndex < 0 \/ cardIndex >= Len(g.playerData[player].hand)
        THEN Ret(st, "fail", <<>>)
        ELSE IF ~HasData(g, target) \/ meldIndex < 0 \/ meldIndex >= Len(g.playerData[target].melds)
        THEN Ret(st, "fail", <<>>)
        ELSE IF ~canLayOffCard(g.playerData[player].hand[cardIndex + 1],
                               g.playerData[target].melds[meldIndex + 1])
        THEN Ret(st, "fail", <<>>)
        ELSE Lay(g.playerData[player].hand[cardIndex + 1])

----------------------------------------------------------------------------
(* Socket handlers *)

NoSocket == [playerName |-> NoPlayer, joined |-> FALSE]

\* socket.on('disconnect'), once the game is found and lists the player
removePlayer(st, name) ==
    LET g == st.g
        idx == IndexOf(g.players, name)
    IN  [st EXCEPT
            !.g = [g EXCEPT
                !.players = RemoveAt(g.players, idx),
                !.playerData = [n \in (DOMAIN g.playerData) \ {name} |-> g.playerData[n]]],
            !.tm = Freeze(st.tm, g, name)]

NoHumanLeft(g) == \A i \in 1..Len(g.players) : IsAI(g, g.players[i])

----------------------------------------------------------------------------
(* The state machine *)

Sockets == {1, 2}
HumanNames == {"Ann", "Bob"}
\* the names a client types: the second one may ask for the host's name
NamesOf == [x \in Sockets |-> IF x = 1 THEN {"Ann"} ELSE HumanNames]
MeldTypes == {"set", "run", "pair"}

NoGame == NewGame(NoPlayer, 0)
NoProbe == [cards |-> <<>>, type |-> "none", result |-> "none"]
NoLast == [op |-> "none", who |-> NoPlayer, res |-> "none", same |-> TRUE, ends |-> <<>>]

St == [g |-> game, tm |-> timers, gh |-> ghost, socks |-> sockets]

Init ==
    /\ room = "none"
    /\ game = NoGame
    /\ sockets = [x \in Sockets |-> NoSocket]
    /\ timers = <<>>
    /\ ghost = [moves |-> 0, drawer |-> NoPlayer, leaves |-> 0, starts |-> 0]
    /\ crashed = FALSE
    /\ last = NoLast
    /\ probe = NoProbe

\* the calls of a client that count as its moves in a round
PlayOps == {"drawCard", "pickUpDiscard", "makeMeld", "discardCard", "submitBuyRequest"}

\* the state a method call leaves, and what it returned
Apply(r, op, who) ==
    /\ game' = r.st.g
    /\ timers' = r.st.tm
    /\ ghost' = IF op \in PlayOps /\ r.res # "fail"
                THEN [r.st.gh EXCEPT !.moves = @ + 1]
                ELSE r.st.gh
    /\ last' = [op |-> op, who |-> who, res |-> r.res,
                same |-> r.st.g = game /\ r.st.tm = timers, ends |-> r.ends]

\* The process is up.  A call that was refused and left the game and the
\* timers as they were is not explored further: whatever follows it also
\* follows the state it was made in.
Running == ~crashed /\ ~(last.res = "fail" /\ last.same)

\* a handler that finds the game: games.get(socket.gameCode)
Finds(x) == Running /\ sockets[x].joined /\ room = "open"

\* socket.on('joinGame'): the first join creates the room, the others name it
JoinGame(x, name, aiCount) ==
    /\ Running
    /\ room \in {"none", "open"}
    /\ LET created == room = "none"
           sanitizedAiCount == IF aiCount > MaxAiCount THEN MaxAiCount
                               ELSE IF aiCount < 0 THEN 0 ELSE aiCount
           st0 == IF created
                  THEN [St EXCEPT !.g = NewGame(name, sanitizedAiCount)]
                  ELSE St
           added == addPlayer(st0, name)
       IN  /\ room' = "open"
           /\ Apply(Ret(added.st, IF added.ok THEN "ok" ELSE "fail", <<>>), "joinGame", name)
           /\ sockets' = IF added.ok
                         THEN [sockets EXCEPT ![x] = [playerName |-> name, joined |-> TRUE]]
                         ELSE sockets
    /\ UNCHANGED <<crashed, probe>>

\* socket.on('startGame')
StartGame(x, k) ==
    /\ Finds(x)
    /\ IF sockets[x].playerName # game.hostName
       THEN Apply(Ret(St, "fail", <<>>), "startGame", sockets[x].playerName)
       ELSE Apply(startGame([St EXCEPT !.gh.starts = @ + 1], k),
                  "startGame", sockets[x].playerName)
    /\ UNCHANGED <<room, sockets, crashed, probe>>

\* socket.on('drawCard')
DrawCard(x, k) ==
    /\ Finds(x)
    /\ Apply(drawCard(St, sockets[x].playerName, k), "drawCard", sockets[x].playerName)
    /\ UNCHANGED <<room, sockets, crashed, probe>>

\* socket.on('pickUpDiscard')
PickUpDiscard(x) ==
    /\ Finds(x)
    /\ Apply(pickUpDiscard(St, sockets[x].playerName), "pickUpDiscard", sockets[x].playerName)
    /\ UNCHANGED <<room, sockets, crashed, probe>>

Window(start, len) == [i \in 1..len |-> start + i - 1]

\* the index lists a client sends: the first or the last cards of the hand,
\* one index three times, and a list that runs past the end of the hand
MeldIndices(n) ==
    {Window(0, len) : len \in 3..MaxMeldLen}
        \cup {Window(n - 4, 4), <<0, 0, 0>>, Window(n - 2, 3)}

HandSize(g, name) == IF HasData(g, name) THEN Len(g.playerData[name].hand) ELSE 0

\* socket.on('makeMeld')
MakeMeld(x, indices, type, k) ==
    /\ Finds(x)
    /\ Apply(makeMeld(St, sockets[x].playerName, indices, type, k),
             "makeMeld", sockets[x].playerName)
    /\ UNCHANGED <<room, sockets, crashed, probe>>

\* socket.on('discardCard')
DiscardCard(x, index, k) ==
    /\ Finds(x)
    /\ Apply(discardCard(St, sockets[x].playerName, index, k),
             "discardCard", sockets[x].playerName)
    /\ UNCHANGED <<room, sockets, crashed, probe>>

\* socket.on('submitBuyRequest')
SubmitBuyRequest(x, wantsCard) ==
    /\ Finds(x)
    /\ game.buyPhase.active
    /\ Apply(Ret([St EXCEPT !.g.buyPhase.requests =
                        MapSet(@, sockets[x].playerName, wantsCard)], "ok", <<>>),
             "submitBuyRequest", sockets[x].playerName)
    /\ UNCHANGED <<room, sockets, crashed, probe>>

\* socket.on('disconnect'); the socket is gone afterwards
Disconnect(x) ==
    /\ Running
    /\ sockets[x].joined
    /\ sockets' = [sockets EXCEPT ![x] = NoSocket]
    /\ IF room = "open" /\ sockets[x].playerName \in Range(game.players)
       THEN LET st1 == removePlayer([St EXCEPT !.gh.leaves = @ + 1], sockets[x].playerName)
            IN  /\ Apply(Ret(st1, "ok", <<>>), "disconnect", sockets[x].playerName)
                /\ room' = IF NoHumanLeft(st1.g) THEN "deleted" ELSE room
       ELSE /\ Apply(Ret([St EXCEPT !.gh.leaves = @ + 1], "ok", <<>>),
                     "disconnect", sockets[x].playerName)
            /\ room' = room
    /\ UNCHANGED <<crashed, probe>>

\* a setTimeout callback runs; an exception it lets escape ends the process
Timeout(i, pick, k) ==
    /\ Running
    /\ i \in 1..Len(timers)
    /\ Fireable(game, timers, i)
    /\ LET Fired(r) == Apply(r, timers[i].kind, timers[i].player)
                            /\ crashed' = (r.res = "throw")
       IN  Fired(fireTimer([St EXCEPT !.tm = RemoveAt(timers, i - 1)], timers[i], pick, k))
    /\ UNCHANGED <<room, sockets, probe>>

\* the shuffles that matter to a call: one when the call cannot reach a deal
ShufflesIf(deals) == IF deals THEN 1..NumShuffles ELSE {1}

HandOf(x) == HandSize(game, sockets[x].playerName)

\* what the clients of one table do: the host's socket creates the room and
\* the other joins it before the start, each plays through its socket, one
\* of them may leave
Lobby == room \in {"none", "open"} /\ ~game.gameStarted

\* once a later round is dealt the clients wait for the timers still pending
Settled == game.currentRound = 1 \/ timers = <<>>

Next ==
    \/ \E x \in Sockets : \E name \in NamesOf[x] :
         /\ Lobby
         /\ room = "none" => x = 1
         /\ JoinGame(x, name, 0)
    \/ \E x \in Sockets, k \in 1..NumShuffles :
         /\ ghost.starts < MaxStarts
         /\ StartGame(x, k)
    \/ \E x \in Sockets, k \in ShufflesIf(Len(game.deck) = 0) :
         /\ ghost.moves < MaxMoves /\ Settled
         /\ DrawCard(x, k)
    \/ \E x \in Sockets :
         /\ ghost.moves < MaxMoves /\ Settled
         /\ PickUpDiscard(x)
    \/ \E x \in Sockets :
         \E type \in MeldTypes, indices \in MeldIndices(HandOf(x)) :
            \E k \in ShufflesIf(HandOf(x) <= Len(indices)) :
                /\ ghost.moves < MaxMoves /\ Settled
                /\ MakeMeld(x, indices, type, k)
    \/ \E x \in Sockets :
         \E index \in {0, HandOf(x) - 1, HandOf(x)} :
            \E k \in ShufflesIf(HandOf(x) <= 1) :
            /\ ghost.moves < MaxMoves /\ Settled
            /\ DiscardCard(x, index, k)
    \/ \E x \in Sockets, wantsCard \in BOOLEAN :
         /\ ghost.moves < MaxMoves /\ Settled
         /\ SubmitBuyRequest(x, wantsCard)
    \/ \E x \in Sockets :
         /\ ghost.leaves < MaxLeaves
         /\ ghost.moves <= LeaveBy
         /\ Disconnect(x)
    \/ \E i \in 1..Len(timers), pick \in BOOLEAN, k \in 1..NumShuffles : Timeout(i, pick, k)

Spec == Init /\ [][Next]_vars

----------------------------------------------------------------------------
(* A table that only buys: the two clients draw, discard their first card  *)
(* and answer the buy windows, the deck being in rank order                *)

NextBuy ==
    \/ \E x \in Sockets : \E name \in NamesOf[x] :
         /\ Lobby
         /\ room = "none" => x = 1
         /\ JoinGame(x, name, 0)
    \/ \E x \in Sockets :
         /\ ghost.starts < MaxStarts
         /\ StartGame(x, 1)
    \/ \E x \in Sockets :
         /\ ghost.moves < MaxBuyMoves
         /\ DrawCard(x, 1)
    \/ \E x \in Sockets :
         /\ ghost.moves < MaxBuyMoves
         /\ DiscardCard(x, 0, 1)
    \/ \E x \in Sockets, wantsCard \in BOOLEAN :
         /\ ghost.moves < MaxBuyMoves
         /\ SubmitBuyRequest(x, wantsCard)
    \/ \E i \in 1..Len(timers), pick \in BOOLEAN : Timeout(i, pick, 1)

SpecBuy == Init /\ [][NextBuy]_vars

----------------------------------------------------------------------------
(* The lobby: the host opens the room with the AI seats asked for, guests  *)
(* join through the second socket under one name after the other, and the *)
(* host starts the game                                                    *)

GuestNames == {"Bob", "Cy", "Di"}

NextLobby ==
    \/ \E aiCount \in 0..MaxAi :
         /\ room = "none"
         /\ JoinGame(1, "Ann", aiCount)
    \/ \E name \in GuestNames :
         /\ room = "open" /\ Lobby
         /\ JoinGame(2, name, 0)
    \/ \E x \in Sockets, k \in 1..NumShuffles :
         /\ ghost.starts < MaxStarts
         /\ StartGame(x, k)

SpecLobby == Init /\ [][NextLobby]_vars

----------------------------------------------------------------------------
(* A full table: the host asks for every AI seat, Bob, Cy and Di join in   *)
(* this order until the deal leaves at most MaxStock cards in stock, and   *)
(* the turns draw it down                                                  *)

NextStock ==
    \/ /\ room = "none"
       /\ JoinGame(1, "Ann", MaxAiCount)
    \/ \E i \in 1..3 :
         /\ room = "open" /\ Lobby
         /\ Len(game.players) = MaxAiCount + i
         /\ JoinGame(2, <<"Bob", "Cy", "Di">>[i], 0)
    \/ \E k \in 1..NumShuffles :
         /\ ghost.starts < MaxStarts
         /\ DeckSize - 1 - Len(game.players) * (BaseHand + 1) <= MaxStock
         /\ StartGame(1, k)
    \/ \E x \in Sockets, k \in ShufflesIf(Len(game.deck) = 0) :
         /\ ghost.moves < MaxStockMoves
         /\ DrawCard(x, k)
    \/ \E x \in Sockets :
         /\ ghost.moves < MaxStockMoves
         /\ DiscardCard(x, 0, 1)
    \/ \E i \in 1..Len(timers), pick \in BOOLEAN, k \in ShufflesIf(Len(game.deck) = 0) :
         Timeout(i, pick, k)

SpecStock == Init /\ [][NextStock]_vars

----------------------------------------------------------------------------
(* A table of three: Ann hosts with one AI seat, Bob joins, the deck is in *)
(* rank order.  The two clients draw and discard their first card when the *)
(* call will be accepted, and answer the buy windows as they like; at a    *)
(* table with Bob one of them may leave while a window is open, one move   *)
(* after LeaveBy at most.                                                  *)

InTurn(x) == Finds(x) /\ getCurrentPlayer(game) = sockets[x].playerName

NextTable ==
    \/ /\ room = "none"
       /\ JoinGame(1, "Ann", 1)
    \/ /\ room = "open" /\ Lobby
       /\ JoinGame(2, "Bob", 0)
    \/ /\ ghost.starts < MaxStarts
       /\ StartGame(1, 1)
    \/ \E x \in Sockets :
         /\ ghost.moves < MaxTableMoves
         /\ InTurn(x) /\ ~game.turnState.hasDrawn
         /\ DrawCard(x, 1)
    \/ \E x \in Sockets :
         /\ ghost.moves < MaxTableMoves
         /\ InTurn(x) /\ game.turnState.hasDrawn /\ HandOf(x) > 0
         /\ DiscardCard(x, 0, 1)
    \/ \E x \in Sockets, wantsCard \in BOOLEAN :
         /\ ghost.moves < MaxTableMoves
         /\ SubmitBuyRequest(x, wantsCard)
    \/ \E x \in Sockets :
         /\ ghost.leaves < MaxLeaves
         /\ game.buyPhase.active /\ ghost.moves <= LeaveBy + 1
         /\ "Bob" \in Range(game.players)
         /\ Disconnect(x)
    \/ \E i \in 1..Len(timers), pick \in BOOLEAN : Timeout(i, pick, 1)

SpecTable == Init /\ [][NextTable]_vars

----------------------------------------------------------------------------
(* A table that is left: Ann hosts with one AI seat, Bob may join, the     *)
(* deck is in rank order.  The clients draw and discard their first card   *)
(* in their turn, and each of them may leave at any time, whatever is      *)
(* pending; Ann may come back to the room under her name.  The timers are  *)
(* followed until the discard pile holds MaxAiDiscards cards more than the *)
(* starter and the clients' discards.                                      *)

NextLeave ==
    \/ /\ room = "none" \/ (room = "open" /\ ~sockets[1].joined)
       /\ JoinGame(1, "Ann", 1)
    \/ /\ room = "open" /\ Lobby
       /\ JoinGame(2, "Bob", 0)
    \/ /\ ghost.starts < MaxStarts
       /\ StartGame(1, 1)
    \/ \E x \in Sockets :
         /\ ghost.moves < MaxLeaveMoves
         /\ InTurn(x) /\ ~game.turnState.hasDrawn
         /\ DrawCard(x, 1)
    \/ \E x \in Sockets :
         /\ ghost.moves < MaxLeaveMoves
         /\ InTurn(x) /\ game.turnState.hasDrawn /\ HandOf(x) > 0
         /\ DiscardCard(x, 0, 1)
    \/ \E x \in Sockets :
         /\ ghost.leaves < MaxGone
         /\ Disconnect(x)
    \/ \E i \in 1..Len(timers), pick \in BOOLEAN :
         /\ Len(game.discardPile) <= ghost.moves + MaxAiDiscards
         /\ Timeout(i, pick, 1)

SpecLeave == Init /\ [][NextLeave]_vars

----------------------------------------------------------------------------
(* A room from its creation on: Ann opens it with or without an AI seat,   *)
(* the second client joins under either name before or after the start,    *)
(* either client asks for the start, and the host asks for it again once   *)
(* the table has been used (a meld laid or a buy made).  In their turn the  *)
(* clients draw, lay their first three cards as a set and discard their    *)
(* first card or their last but one, and they ask for the discards.        *)

NextRoom ==
    \/ \E aiCount \in 0..1 :
         /\ room = "none"
         /\ JoinGame(1, "Ann", aiCount)
    \/ \E name \in HumanNames :
         /\ room = "open"
         /\ JoinGame(2, name, 0)
    \/ \E x \in Sockets, k \in ShufflesIf(ghost.starts = 0) :
         /\ ghost.starts < MaxDeals
         /\ ghost.starts > 0 =>
                \E p \in DOMAIN game.playerData :
                    \/ game.playerData[p].buys < InitialBuys
                    \/ game.playerData[p].melds # <<>>
         /\ StartGame(x, k)
    \/ \E x \in Sockets :
         /\ ghost.moves < MaxRoomMoves
         /\ InTurn(x) /\ ~game.turnState.hasDrawn
         /\ DrawCard(x, 1)
    \/ \E x \in Sockets :
         /\ ghost.moves < MaxRoomMoves
         /\ InTurn(x) /\ HandOf(x) > 3
         /\ MakeMeld(x, Window(0, 3), "set", 1)
    \/ \E x \in Sockets : \E index \in {0, HandOf(x) - 2} :
         /\ ghost.moves < MaxRoomMoves
         /\ InTurn(x) /\ game.turnState.hasDrawn /\ HandOf(x) > 2
         /\ DiscardCard(x, index, 1)
    \/ \E x \in Sockets :
         /\ ghost.moves < MaxRoomMoves
         /\ SubmitBuyRequest(x, TRUE)
    \/ \E i \in 1..Len(timers), pick \in BOOLEAN : Timeout(i, pick, 1)

SpecRoom == Init /\ [][NextRoom]_vars

----------------------------------------------------------------------------
(* The table with lay-offs (unnamed/part_003): Ann and Bob are seated and  *)
(* the game has been started; the clients lay melds of their first cards   *)
(* and lay cards off onto the melds on the table, until a round has been   *)
(* won.  (No AI is seated, so the timers set by handleRoundEnd only        *)
(* broadcast.)                                                             *)

\* the shuffles of a deal at this table: RunDeal is one of them
LayShuffles(deals) == IF deals THEN 1..NumShuffles \cup {RunDeal} ELSE {1}

NextLayOff ==
    \* socket.on('makeMeld')
    \/ \E x \in Sockets, type \in {"set", "run"}, start \in 0..2, len \in 3..4 :
         \E k \in LayShuffles(HandOf(x) <= len) :
            /\ Finds(x) /\ game.currentRound <= MaxLayRounds
            /\ ghost.moves < MaxLayMoves
            /\ Apply(makeMeld3(St, sockets[x].playerName, Window(start, len), type, k),
                     "makeMeld", sockets[x].playerName)
            /\ UNCHANGED <<room, sockets, crashed, probe>>
    \* socket.on('layOffCard')
    \/ \E x \in Sockets, cardIndex \in 0..1, target \in HumanNames, meldIndex \in 0..3 :
         \E k \in LayShuffles(HandOf(x) <= 1) :
            /\ Finds(x) /\ game.currentRound <= MaxLayRounds
            /\ Apply(layOffCard(St, sockets[x].playerName, cardIndex, target, meldIndex, k),
                     "layOffCard", sockets[x].playerName)
            /\ UNCHANGED <<room, sockets, crashed, probe>>

\* the state startGame leaves: the first round dealt to Ann and Bob
SpecLayOff ==
    /\ room = "open"
    /\ \E k \in 1..NumShuffles :
         game = dealRound3([NewGame("Ann", 0) EXCEPT
                                !.players = <<"Ann", "Bob">>,
                                !.playerData = [p \in HumanNames |->
                                    [hand |-> <<>>, melds |-> <<>>, buys |-> InitialBuys,
                                     scores |-> [r \in 1..NumRounds |-> 0]]],
                                !.gameStarted = TRUE], k)
    /\ sockets = [x \in Sockets |-> [playerName |-> <<"Ann", "Bob">>[x], joined |-> TRUE]]
    /\ timers = <<>>
    /\ ghost = [moves |-> 0, drawer |-> NoPlayer, leaves |-> 0, starts |-> 1]
    /\ crashed = FALSE
    /\ last = NoLast
    /\ probe = NoProbe
    /\ [][NextLayOff]_vars

----------------------------------------------------------------------------
(* The last round at a table Bob has left: Ann has won rounds 1 to 6 on    *)
(* her own (endRound scores no hand then) and round 7 has been dealt.  She *)
(* draws, lays the first cards of her hand as runs or sets, discards her   *)
(* first card, and goes on sending calls after the round is won.  With no  *)
(* other player to ask, startBuyPhase sets no timer.                       *)

NextLast ==
    \/ /\ ghost.moves < MaxLastMoves
       /\ DrawCard(1, 1)
    \/ \E type \in {"set", "run"}, len \in {3, 4, 6, 7} :
         /\ ghost.moves < MaxLastMoves
         /\ HandOf(1) >= len
         /\ MakeMeld(1, Window(0, len), type, 1)
    \/ /\ ghost.moves < MaxLastMoves
       /\ HandOf(1) > 0
       /\ DiscardCard(1, 0, 1)

SpecLast ==
    /\ room = "open"
    /\ \E k \in 1..NumShuffles :
         game = dealRound([g |-> [NewGame("Ann", 0) EXCEPT
                                    !.players = <<"Ann">>,
                                    !.playerData = [p \in {"Ann"} |-> NewPlayerData],
                                    !.gameStarted = TRUE,
                                    !.currentRound = NumRounds],
                           tm |-> <<>>,
                           gh |-> [moves |-> 0, drawer |-> NoPlayer, leaves |-> 1, starts |-> 1],
                           socks |-> [x \in Sockets |-> NoSocket]], k).st.g
    /\ sockets = [x \in Sockets |-> IF x = 1 THEN [playerName |-> "Ann", joined |-> TRUE]
                                              ELSE NoSocket]
    /\ timers = <<>>
    /\ ghost = [moves |-> 0, drawer |-> NoPlayer, leaves |-> 1, starts |-> 1]
    /\ crashed = FALSE
    /\ last = NoLast
    /\ probe = NoProbe
    /\ [][NextLast]_vars

----------------------------------------------------------------------------
(* validateMeld on its own: every card list up to MaxProbeLen over cards    *)
(* that cover both decks, three suits, the low ranks, 8 to 10 and a court   *)

\* A 2 3 4 5 8 9 10 J of hearts, 3 of diamonds, 3 of spades, the second 3 of hearts
ProbeCards == {1, 2, 3, 4, 5, 8, 9, 10, 11, 16, 42, 55}
ProbeSeqs == UNION {[1..n -> ProbeCards] : n \in 0..MaxProbeLen}

InitValidate ==
    /\ room = "none"
    /\ game = NoGame
    /\ sockets = [x \in Sockets |-> NoSocket]
    /\ timers = <<>>
    /\ ghost = [moves |-> 0, drawer |-> NoPlayer, leaves |-> 0, starts |-> 0]
    /\ crashed = FALSE
    /\ last = NoLast
    /\ probe \in [cards : ProbeSeqs, type : MeldTypes, result : {"none"}]

Validate ==
    /\ probe.result = "none"
    /\ probe' = [probe EXCEPT !.result = validateMeld(probe.cards, probe.type)]
    /\ UNCHANGED <<room, game, sockets, timers, ghost, crashed, last>>

NextValidate == Validate

SpecValidate == InitValidate /\ [][NextValidate]_vars

----------------------------------------------------------------------------
(* endGame on its own: the score sheets of one to three players, each with  *)
(* at most MaxScoredRounds rounds lost                                      *)

FinalPlayers == <<"Ann", "Bob", "Cy">>
\* a round costs a player nothing or the penalty of a single 5
ScoreSheets == {sh \in [1..NumRounds -> {0, 5}] :
                    Cardinality({r \in 1..NumRounds : sh[r] # 0}) <= MaxScoredRounds}

InitFinal ==
    /\ room = "none"
    /\ game = NoGame
    /\ sockets = [x \in Sockets |-> NoSocket]
    /\ timers = <<>>
    /\ ghost = [moves |-> 0, drawer |-> NoPlayer, leaves |-> 0, starts |-> 0]
    /\ crashed = FALSE
    /\ last = NoLast
    /\ \E n \in 1..Len(FinalPlayers) :
         \E sheets \in [Range(SubSeq(FinalPlayers, 1, n)) -> ScoreSheets] :
            probe = [players |-> SubSeq(FinalPlayers, 1, n), sheets |-> sheets,
                     results |-> [winner |-> NoPlayer, winnerScore |-> 0,
                                  finalStandings |-> <<>>, gameComplete |-> FALSE]]

EndGame ==
    /\ ~probe.results.gameComplete
    /\ probe' = [probe EXCEPT !.results =
                    endGame([players |-> probe.players,
                             playerData |-> [n \in Range(probe.players) |->
                                                [scores |-> probe.sheets[n]]]])]
    /\ UNCHANGED <<room, game, sockets, timers, ghost, crashed, last>>

NextFinal == EndGame

SpecFinal == InitFinal /\ [][NextFinal]_vars

----------------------------------------------------------------------------
(* Claims *)

\* every card a game holds, place by place: the stock, the discard pile, and
\* each player's hand and melds
RECURSIVE MeldCards(_)
MeldCards(melds) ==
    IF Len(melds) = 0 THEN <<>> ELSE melds[1].cards \o MeldCards(Tail(melds))

RECURSIVE TableCards(_, _)
TableCards(g, names) ==
    IF names = {} THEN <<>>
    ELSE LET Rest(n) == g.playerData[n].hand \o MeldCards(g.playerData[n].melds)
                            \o TableCards(g, names \ {n})
         IN  Rest(CHOOSE n \in names : TRUE)

EveryCard(g) == g.deck \o g.discardPile \o TableCards(g, DOMAIN g.playerData)

\* the round's contract read off the table of requirements, meld by meld
ContractMet(melds, round) ==
    /\ Cardinality({i \in 1..Len(melds) :
            melds[i].type = "set"
            /\ Len(melds[i].cards) >= ROUND_REQUIREMENTS[round].minSetSize})
         >= ROUND_REQUIREMENTS[round].sets
    /\ Cardinality({i \in 1..Len(melds) :
            melds[i].type = "run"
            /\ Len(melds[i].cards) >= ROUND_REQUIREMENTS[round].minRunSize})
         >= ROUND_REQUIREMENTS[round].runs

NoCardTwice(cards) == Cardinality(Range(cards)) = Len(cards)

\* the game is on, in a process that is up, with everyone who joined still in
Playing == game.gameStarted /\ ~crashed /\ room = "open"

\* C1: in every state of a started game each of the 104 cards of the round's
\* shoe is in exactly one place (a hand, the discard pile, the stock, a
\* meld), and no absent card is in a hand.  Stated for games nobody has left,
\* so that only the moves of cards between the places are in question.
C1_CardConservation ==
    (Playing /\ ghost.leaves = 0) =>
        /\ Len(EveryCard(game)) = DeckSize
        /\ Range(EveryCard(game)) = AllCards

\* C2: endRound(p) is called only when p's hand is empty and p's melds of the
\* round, scanned in full, hold the round's number of sets and of runs of the
\* sizes the round asks for.
C2_EndRoundOnlyWhenOut ==
    \A i \in 1..Len(last.ends) :
        /\ last.ends[i].hand = <<>>
        /\ last.ends[i].round \in 1..NumRounds
        /\ ContractMet(last.ends[i].melds, last.ends[i].round)

\* a round was ended by its winner and the next round was dealt
C2_Witness ==
    /\ last.ends # <<>>
    /\ last.res = "ok"
    /\ game.currentRound = last.ends[1].round + 1

\* C3: a discardCard of the last card by the player to move, who has drawn
\* and whose melds (each card of them laid down once) do not meet the
\* round's contract, returns a failure and leaves hands, discard pile, buy
\* window and turn as they were.
C3_LastCardDiscardRefused ==
    [][(/\ Playing
        /\ last'.op = "discardCard"
        /\ last'.who = getCurrentPlayer(game)
        /\ HasData(game, last'.who)
        /\ game.turnState.hasDrawn
        /\ ghost.drawer = last'.who
        /\ Len(game.playerData[last'.who].hand) = 1
        /\ NoCardTwice(MeldCards(game.playerData[last'.who].melds))
        /\ ~ContractMet(game.playerData[last'.who].melds, game.currentRound))
       => (/\ last'.res = "fail"
           /\ game'.playerData = game.playerData
           /\ game'.discardPile = game.discardPile
           /\ game'.buyPhase = game.buyPhase
           /\ game'.currentPlayerIndex = game.currentPlayerIndex)]_vars

\* C4: a makeMeld that would empty the hand while the caller's melds, the
\* new one included, do not meet the round's contract is refused and
\* reverted.  So no makeMeld turns the caller's whole hand, each card once
\* and a valid meld, into a new meld when the contract is unmet with it.
C4_EmptyingMeldRefused ==
    [][~(/\ Playing
         /\ last'.op = "makeMeld"
         /\ last'.who = getCurrentPlayer(game)
         /\ HasData(game, last'.who)
         /\ HasData(game', last'.who)
         /\ game'.playerData[last'.who].hand = <<>>
         /\ \E type \in {"set", "run"} :
               /\ validateMeld(game.playerData[last'.who].hand, type) = "true"
               /\ game'.playerData[last'.who].melds =
                     Append(game.playerData[last'.who].melds,
                            [type |-> type, cards |-> game.playerData[last'.who].hand])
               /\ ~ContractMet(game'.playerData[last'.who].melds, game.currentRound))]_vars

\* C5: hasDrawn is true exactly when the player to move has drawn from the
\* stock or picked up the discard in this turn.
C5_HasDrawnIffDrew ==
    (Playing /\ getCurrentPlayer(game) # NoPlayer) =>
        (game.turnState.hasDrawn <=> ghost.drawer = getCurrentPlayer(game))

\* C6: in a started game currentPlayerIndex is within the player list and the
\* player it names has a record, whoever has disconnected.
C6_CurrentPlayerPresent ==
    Playing =>
        /\ game.currentPlayerIndex >= 0
        /\ game.currentPlayerIndex < Len(game.players)
        /\ HasData(game, getCurrentPlayer(game))

\* C7: every player's count of buys is within 0..3 at all times, whatever
\* buy requests are submitted.
C7_BuysWithinBounds ==
    Playing =>
        \A n \in DOMAIN game.playerData : game.playerData[n].buys \in 0..InitialBuys

\* C8: right after the deal of a round, whatever the number of players the
\* room was started with, every player holds 10 + round cards, the discard
\* pile holds one card, and hands, discard pile and stock add up to 104.
C8_DealAddsUp ==
    (last.op = "startGame" /\ last.res = "ok") =>
        /\ \A n \in DOMAIN game.playerData :
                /\ Len(game.playerData[n].hand) = BaseHand + game.currentRound
                /\ ~HasUndefined(game.playerData[n].hand)
        /\ Len(game.discardPile) = 1
        /\ Len(EveryCard(game)) = DeckSize

\* the penalty of a hand: A = 20, J = Q = K = 10, the others their number
HandPenalty(hand) == SumSeq([i \in 1..Len(hand) |-> CardScoreValue(hand[i])])

\* C11: a call of endRound with winner w returns without fault and records
\* for the round it ends 0 for w and, for every other player, the penalty of
\* the hand that player holds.
C11_RoundScored ==
    [][last'.ends # <<>> =>
        /\ last'.res = "ok"
        /\ \A n \in DOMAIN game.playerData :
              /\ HasData(game', n)
              /\ game'.playerData[n].scores[last'.ends[1].round] =
                    IF n = last'.ends[1].winner THEN 0
                    ELSE HandPenalty(game.playerData[n].hand)]_vars

\* C12: the round number stays within 1..7 and never goes down; a call of
\* endRound in a round before the seventh moves to the next round and deals
\* it, and a call in round 7 deals nothing more.
C12_RoundsAdvance ==
    [][/\ game'.currentRound \in 1..NumRounds
       /\ game'.currentRound >= game.currentRound
       /\ last'.ends # <<>> =>
            IF last'.ends[1].round < NumRounds
            THEN /\ game'.currentRound = last'.ends[1].round + 1
                 /\ Len(game'.discardPile) = 1
                 /\ \A n \in DOMAIN game'.playerData :
                        /\ Len(game'.playerData[n].hand) = BaseHand + game'.currentRound
                        /\ game'.playerData[n].melds = <<>>
            ELSE /\ game'.currentRound = NumRounds
                 /\ game'.deck = game.deck]_vars

\* C13: the final results give every player once, with the sum of the
\* player's seven round scores as total, in ascending order of total, players
\* with equal totals in the order of the player list; the winner is the first
\* of them and so has the least total.
C13_FinalStandings ==
    probe.results.gameComplete =>
        LET fs == probe.results.finalStandings
            Sum7(sh) == sh[1] + sh[2] + sh[3] + sh[4] + sh[5] + sh[6] + sh[7]
        IN  /\ Len(fs) = Len(probe.players)
            /\ \A n \in Range(probe.players) :
                    Cardinality({i \in 1..Len(fs) : fs[i][1] = n}) = 1
            /\ \A i \in 1..Len(fs) : fs[i][2] = Sum7(probe.sheets[fs[i][1]])
            /\ \A i, j \in 1..Len(fs) :
                    i < j => \/ fs[i][2] < fs[j][2]
                             \/ /\ fs[i][2] = fs[j][2]
                                /\ IndexOf(probe.players, fs[i][1]) <
                                        IndexOf(probe.players, fs[j][1])
            /\ probe.results.winner = fs[1][1]
            /\ probe.results.winnerScore = fs[1][2]
            /\ \A n \in Range(probe.players) :
                    probe.results.winnerScore <= Sum7(probe.sheets[n])

\* three players, the last of the list alone with the least total and the
\* first two level
C13_Witness ==
    /\ probe.results.gameComplete
    /\ Len(probe.players) = 3
    /\ probe.results.finalStandings = <<<<"Cy", 5>>, <<"Ann", 10>>, <<"Bob", 10>>>>

\* the current player, who has not drawn, draws while the stock is empty:
\* through the socket, or as the first step of an AI turn that does not pick
\* the top of the pile up
DrawsFromEmptyStock ==
    /\ ~DeckIsNull(game) /\ Len(game.deck) = 0
    /\ ~game.turnState.hasDrawn
    /\ last'.who = getCurrentPlayer(game)
    /\ HasData(game, last'.who)
    /\ \/ last'.op = "drawCard"
       \/ /\ last'.op = "ai1"
          /\ ~(game'.deck = <<>> /\ game'.discardPile = PopRest(game.discardPile)
                /\ game'.playerData[last'.who].hand =
                        Append(game.playerData[last'.who].hand, PopValue(game.discardPile)))

\* s holds the cards of t, each as often
SameCards(s, t) ==
    \A c \in Range(s) \cup Range(t) :
        Cardinality({i \in DOMAIN s : s[i] = c}) = Cardinality({i \in DOMAIN t : t[i] = c})

\* C14: a draw by the current player with the stock empty and n >= 2 cards
\* on the discard pile succeeds: the n - 1 cards under the top card become the
\* stock, one of them goes to the end of the player's hand, and the discard
\* pile is left with the card that was on top.
C14_RecycleOnEmptyStock ==
    [][(DrawsFromEmptyStock /\ Len(game.discardPile) >= 2) =>
        LET who == last'.who
            hand == game.playerData[who].hand
            hand2 == game'.playerData[who].hand
        IN  /\ last'.res = "ok"
            /\ game'.discardPile = <<PopValue(game.discardPile)>>
            /\ Len(hand2) = Len(hand) + 1
            /\ SubSeq(hand2, 1, Len(hand)) = hand
            /\ SameCards(Append(game'.deck, hand2[Len(hand2)]), PopRest(game.discardPile))
            /\ game'.turnState.hasDrawn
            /\ \A n \in DOMAIN game.playerData \ {who} :
                    game'.playerData[n] = game.playerData[n]]_vars

\* a player has just drawn, the pile is down to one card, and the stock holds
\* cards again that the deal had given to hands
C14_Witness ==
    /\ last.op \in {"drawCard", "ai1"} /\ last.res = "ok"
    /\ game.turnState.hasDrawn
    /\ Len(game.discardPile) = 1
    /\ Len(game.deck) >= 1
    /\ \A i \in 1..Len(game.deck) : \A k \in 1..NumShuffles :
            IndexOf(NewDeck(k), game.deck[i]) >= MaxStock

\* C15: a draw by the current player with the stock empty and at most the
\* top card on the discard pile is refused without fault, and the discard
\* pile, the stock, the hands and the turn state are as they were.
C15_NoCardsAvailable ==
    [][(DrawsFromEmptyStock /\ Len(game.discardPile) <= 1) =>
        /\ last'.res = "fail"
        /\ game'.discardPile = game.discardPile
        /\ game'.deck = game.deck
        /\ game'.playerData = game.playerData
        /\ game'.turnState = game.turnState]_vars

\* C16: a buy window is resolved while it is open and its discarder, who has
\* drawn, is still the current player, and the resolution hands the turn to
\* the discarder's successor, (index + 1) mod n, who has not drawn: a discard
\* moves the turn by one seat and no further.
C16_DiscardPassesTurnOnce ==
    [][(last'.op = "buy" /\ game.players # <<>>) =>
        /\ game.buyPhase.active
        /\ game.turnState.hasDrawn
        /\ game'.currentPlayerIndex =
                (game.currentPlayerIndex + 1) % Len(game.players)
        /\ ~game'.turnState.hasDrawn]_vars

\* the players whose request for the discard stands at yes
Requesters(g) ==
    {g.buyPhase.requests[i].player :
        i \in {j \in DOMAIN g.buyPhase.requests : g.buyPhase.requests[j].wants}}

\* C17: when a buy window is resolved with requests from players who may buy
\* (not the discarder, a token left), the first of them in turn order, counted
\* from the head of the player list or from the discarder's successor, gets
\* the discard and one card from the stock and pays one token; no other
\* player's hand or tokens change.
C17_FirstInTurnOrderBuys ==
    [][(/\ last'.op = "buy"
        /\ Requesters(game) # {}
        /\ \A p \in Requesters(game) :
               /\ p # getCurrentPlayer(game)
               /\ HasData(game, p)
               /\ game.playerData[p].buys > 0) =>
        LET W == Requesters(game)
            n == Len(game.players)
            seat(p) == IndexOf(game.players, p)
            after(p) == (seat(p) - game.currentPlayerIndex - 1 + n) % n
            listFirst == CHOOSE p \in W : \A q \in W : seat(p) <= seat(q)
            nextFirst == CHOOSE p \in W : \A q \in W : after(p) <= after(q)
        IN  \E b \in {listFirst, nextFirst} :
                /\ game'.playerData[b].hand =
                        game.playerData[b].hand \o
                            <<PopValue(game.discardPile), PopValue(game.deck)>>
                /\ game'.playerData[b].buys = game.playerData[b].buys - 1
                /\ \A q \in DOMAIN game.playerData \ {b} :
                        game'.playerData[q] = game.playerData[q]]_vars

\* C18: a buy window that is open has its timeout pending and the process
\* is up, so that the timeout closes it in the end; and the timeout that
\* closes an open window leaves the phase inactive with no request pending,
\* passes the turn to the next seat, and changes nothing for a player who
\* has not asked for the card.
C18_BuyWindowCloses ==
    [][/\ game'.buyPhase.active =>
            /\ ~crashed'
            /\ \E i \in 1..Len(timers') : timers'[i].kind = "buy"
       /\ (last'.op = "buy" /\ game.buyPhase.active /\ game.players # <<>>) =>
            /\ game'.buyPhase = NoBuyPhase
            /\ game'.currentPlayerIndex =
                    (game.currentPlayerIndex + 1) % Len(game.players)
            /\ ~game'.turnState.hasDrawn
            /\ \A p \in DOMAIN game.playerData \ Requesters(game) :
                    game'.playerData[p] = game.playerData[p]]_vars

\* C19: a player whose hand changes when a buy window is resolved is not the
\* current player, who discarded the card, and had a buy token left.
C19_OnlyEligibleBuy ==
    [][last'.op = "buy" =>
        \A p \in DOMAIN game.playerData \cap DOMAIN game'.playerData :
            game'.playerData[p].hand # game.playerData[p].hand =>
                /\ p # getCurrentPlayer(game)
                /\ game.playerData[p].buys > 0]_vars

\* C20: in a game that is under way with cards in stock, a call of drawCard,
\* pickUpDiscard, makeMeld or discardCard that is not accepted and has not
\* reached the end of a round (so: a call out of turn, a draw after the draw,
\* a discard before it, an index outside the hand, a pick-up from an empty
\* pile, cards that form no meld) returns failure and leaves the game as it
\* was.
C20_RejectedCallChangesNothing ==
    [][(/\ last'.op \in {"drawCard", "pickUpDiscard", "makeMeld", "discardCard"}
        /\ game.gameStarted /\ Len(game.deck) > 0
        /\ last'.who # getCurrentPlayer(game) \/ HasData(game, last'.who)
        /\ last'.ends = <<>>
        /\ last'.res # "ok") =>
            /\ last'.res = "fail"
            /\ game' = game]_vars

\* C21: in a started game a makeMeld call of the current player that does
\* not end the round either succeeds, and then the hand has lost exactly the
\* cards of one new meld appended to the player's melds, no card being in
\* that meld twice, or it is refused and leaves hand and melds as they were
\* (so a list with a repeated index or an index outside the hand is refused).
C21_MeldTakesDistinctCards ==
    [][(/\ last'.op = "makeMeld" /\ game.gameStarted
        /\ last'.who = getCurrentPlayer(game) /\ HasData(game, last'.who)
        /\ last'.ends = <<>>) =>
            LET before == game.playerData[last'.who]
                after == game'.playerData[last'.who]
            IN  IF last'.res = "ok"
                THEN /\ Len(after.melds) = Len(before.melds) + 1
                     /\ SubSeq(after.melds, 1, Len(before.melds)) = before.melds
                     /\ NoCardTwice(after.melds[Len(after.melds)].cards)
                     /\ SameCards(before.hand,
                                  after.hand \o after.melds[Len(after.melds)].cards)
                ELSE /\ after.hand = before.hand
                     /\ after.melds = before.melds]_vars

C23_MeldOnlyAfterDraw ==
    [][(/\ last'.op = "makeMeld" /\ last'.res = "ok"
        /\ HasData(game', last'.who)
        /\ \A i \in 1..Len(game'.playerData[last'.who].melds) :
                NoCardTwice(game'.playerData[last'.who].melds[i].cards)) =>
            /\ last'.who = getCurrentPlayer(game)
            /\ game.turnState.hasDrawn
            /\ ~game.buyPhase.active]_vars

\* C24: a deal (the start of a game, asked for the first time or again at a
\* used table), whatever the number of players, leaves every player of the
\* room with a hand of 10 + round cards of the new shoe, no card of which is
\* anywhere else, with no melds, 3 buy tokens and goneDown false, leaves
\* hasDrawn false, and leaves every player's score entries as they were.
C24_DealResetsRound ==
    [][(last'.op = "startGame" /\ last'.res = "ok") =>
        /\ ~game'.turnState.hasDrawn
        /\ NoCardTwice(EveryCard(game'))
        /\ \A i \in 1..Len(game'.players) :
            LET after == game'.playerData[game'.players[i]]
            IN  /\ Len(after.hand) = BaseHand + game'.currentRound
                /\ Range(after.hand) \subseteq AllCards
                /\ after.melds = <<>>
                /\ after.buys = InitialBuys
                /\ ~after.goneDown
                /\ after.scores = game.playerData[game'.players[i]].scores]_vars

Reversed(s) == [i \in 1..Len(s) |-> s[Len(s) + 1 - i]]

\* game states that differ from g only in what the other players hold in hand
\* and in the stock, all sizes being those of g: the other hands in reverse
\* order, the stock in reverse order, and the hand of another player exchanged
\* for as many cards of the stock
HiddenVariants(g, player) ==
    LET others == (DOMAIN g.playerData) \ {player}
        Exchanged(o, n) ==
            [g EXCEPT !.playerData[o].hand = SubSeq(g.deck, 1, n),
                      !.deck = g.playerData[o].hand \o SubSeq(g.deck, n + 1, Len(g.deck))]
    IN  {[g EXCEPT !.playerData =
                [n \in DOMAIN g.playerData |->
                    IF n = player THEN g.playerData[n]
                    ELSE [g.playerData[n] EXCEPT !.hand = Reversed(@)]]],
         [g EXCEPT !.deck = Reversed(@)]}
        \cup {Exchanged(o, Len(g.playerData[o].hand)) :
                o \in {q \in others : Len(g.playerData[q].hand) <= Len(g.deck)}}

\* C25: the snapshot getGameState(p) of a started game is the same for any
\* two game states that differ only in the contents (not the sizes) of the
\* other players' hands and of the stock: of another player's hand it shows
\* the size alone.
C25_ViewHidesHands ==
    (game.gameStarted /\ Range(game.players) \subseteq DOMAIN game.playerData) =>
        \A p \in Range(game.players) :
            \A hidden \in HiddenVariants(game, p) :
                getGameState(hidden, p) = getGameState(game, p)

\* a player has drawn and discarded at a table where the others' hands and
\* the stock could be other cards
C25_Witness ==
    /\ last.op = "discardCard" /\ last.res = "ok"
    /\ game.gameStarted /\ last.who \in Range(game.players)
    /\ Range(game.players) \subseteq DOMAIN game.playerData
    /\ \E hidden \in HiddenVariants(game, last.who) :
            /\ hidden.playerData # game.playerData
            /\ hidden.deck # game.deck

\* C26: a join request under a name that is already in the room, or for a
\* room whose game has started, fails and leaves the player list and the
\* per-player data as they were; so the players of a started game never grow.
C26_JoinRefused ==
    [][/\ (/\ last'.op = "joinGame"
           /\ room = "open"
           /\ last'.who \in Range(game.players) \/ game.gameStarted) =>
                /\ last'.res = "fail"
                /\ game'.players = game.players
                /\ game'.playerData = game.playerData
       /\ game.gameStarted => Range(game'.players) \subseteq Range(game.players)]_vars

\* C27: the game of a room starts only in a start request of the host made
\* with at least 2 players (AI seats included) in the room; a start request
\* of another client, or one made with fewer than 2 players, returns failure
\* and leaves the game as it was, not started and with nothing dealt.
C27_OnlyHostStartsWithTwo ==
    [][/\ (~game.gameStarted /\ game'.gameStarted) =>
            /\ last'.op = "startGame"
            /\ last'.who = game.hostName
            /\ Len(game.players) >= 2
       /\ (/\ last'.op = "startGame"
           /\ last'.who # game.hostName \/ Len(game.players) < 2) =>
            /\ last'.res = "fail"
            /\ game' = game]_vars

\* the host, alone in the room, has asked for the start and was refused
C27_Witness ==
    /\ last.op = "startGame" /\ last.res = "fail"
    /\ last.who = game.hostName
    /\ Len(game.players) = 1
    /\ ~game.gameStarted /\ game.deck = <<>>

\* C28: a layOffCard call succeeds only for the current player whose own
\* melds meet the round's requirements; a call of a player whose melds do not
\* meet them returns failure and changes no hand and no meld.
C28_LayOffOnlyWhenDown ==
    [][last'.op = "layOffCard" =>
        /\ last'.res = "ok" =>
            /\ last'.who = getCurrentPlayer(game)
            /\ ContractMet(game.playerData[last'.who].melds, game.currentRound)
        /\ (/\ HasData(game, last'.who)
            /\ ~ContractMet(game.playerData[last'.who].melds, game.currentRound)) =>
                /\ last'.res = "fail"
                /\ game'.playerData = game.playerData]_vars

\* the current player, one set short of the contract, was refused a lay-off
\* of a card that fits a meld of theirs
C28_Witness ==
    /\ last.op = "layOffCard" /\ last.res = "fail"
    /\ last.who = getCurrentPlayer(game)
    /\ ~ContractMet(game.playerData[last.who].melds, game.currentRound)
    /\ \E i \in 1..Len(game.playerData[last.who].melds) :
            canLayOffCard(game.playerData[last.who].hand[1], game.playerData[last.who].melds[i])

\* C29: a layOffCard call of the current player who holds one card either
\* succeeds, and then the requirements were met and the round has ended with
\* that player as winner (scored 0 for the round, the others the penalty of
\* their hands, the next round dealt), or it returns failure and leaves every
\* hand, the card at its index, and every meld as they were.
C29_LayOffGoesOut ==
    [][(/\ last'.op = "layOffCard"
        /\ last'.who = getCurrentPlayer(game) /\ HasData(game, last'.who)
        /\ Len(game.playerData[last'.who].hand) = 1) =>
            IF last'.res = "ok"
            THEN /\ ContractMet(game.playerData[last'.who].melds, game.currentRound)
                 /\ last'.ends = <<[winner |-> last'.who, round |-> game.currentRound]>>
                 /\ game'.currentRound = game.currentRound + 1
                 /\ \A p \in Range(game.players) :
                        game'.playerData[p].scores[game.currentRound] =
                            IF p = last'.who THEN 0 ELSE HandPenalty(game.playerData[p].hand)
            ELSE /\ last'.res = "fail"
                 /\ game'.playerData = game.playerData]_vars

\* a player has gone out by laying off their last card: round 1 is scored
\* and round 2 is dealt
C29_Witness ==
    /\ last.op = "layOffCard" /\ last.res = "ok"
    /\ last.ends = <<[winner |-> last.who, round |-> 1]>>
    /\ game.currentRound = 2
    /\ \E p \in Range(game.players) : game.playerData[p].scores[1] > 0

\* C30: a delayed AI step changes the game only while its AI is what it was
\* scheduled as.  A step of an AI turn (the draw, the melds, the discard) that
\* changes the game finds its AI the current player of a started game; a buy
\* window that closes with a card going to an AI finds the window open, the
\* card it was opened for on top of the discard pile, and the AI not the
\* current player.
C30_StaleAiStepChangesNothing ==
    [][/\ (last'.op \in {"ai1", "ai2", "ai3"} /\ game' # game) =>
            /\ game.gameStarted
            /\ last'.who = getCurrentPlayer(game)
       /\ last'.op = "buy" =>
            \A p \in DOMAIN game.playerData \cap DOMAIN game'.playerData :
                (IsAI(game, p) /\ game'.playerData[p].hand # game.playerData[p].hand) =>
                    /\ game.buyPhase.active
                    /\ Len(game.discardPile) > 0
                    /\ PopValue(game.discardPile) = game.buyPhase.card
                    /\ p # getCurrentPlayer(game)]_vars

\* C31: once the last human of a room has disconnected and the room is
\* removed, no timer of its game is left pending, and no callback that was
\* scheduled before the removal changes the game or throws.
C31_RemovedRoomIsQuiet ==
    [][room = "deleted" =>
        /\ timers = <<>>
        /\ last'.op \in {"buy", "ai1", "ai2", "ai3"} => (game' = game /\ ~crashed')]_vars

\* C32: once a call has ended round 7 (the final results are produced), the
\* next call or callback does not succeed as a draw, pick-up, meld, discard
\* or buy, and it changes neither the round number nor any player's scores.
C32_GameCompleteIsTerminal ==
    [][(/\ last.res = "ok"
        /\ \E i \in 1..Len(last.ends) : last.ends[i].round = NumRounds) =>
            /\ last'.op \in PlayOps \cup {"buy", "ai1", "ai2", "ai3"} =>
                    (last'.res # "ok" /\ game' = game)
            /\ game'.currentRound = game.currentRound
            /\ \A p \in DOMAIN game.playerData :
                    /\ p \in DOMAIN game'.playerData
                    /\ game'.playerData[p].scores = game.playerData[p].scores]_vars

\* C33: a buy-window resolution that finds the stock empty gives nothing:
\* the discard pile, every hand and every buy count are as before; and no
\* resolution puts an absent card into a hand.
C33_BuyWithoutPenaltyFails ==
    [][(last'.op = "buy" /\ ~DeckIsNull(game)) =>
        \A p \in DOMAIN game.playerData \cap DOMAIN game'.playerData :
            /\ Len(game.deck) = 0 =>
                    /\ game'.discardPile = game.discardPile
                    /\ game'.playerData[p].hand = game.playerData[p].hand
                    /\ game'.playerData[p].buys = game.playerData[p].buys
            /\ HasUndefined(game'.playerData[p].hand) =>
                    HasUndefined(game.playerData[p].hand)]_vars

\* C34: in every state every meld on the table is legal: validateMeld
\* accepts the cards of each meld of each player for the meld's type,
\* whatever makeMeld and layOffCard calls have been made.
C34_MeldsStayLegal ==
    \A p \in DOMAIN game.playerData :
        \A i \in 1..Len(game.playerData[p].melds) :
            validateMeld(game.playerData[p].melds[i].cards,
                         game.playerData[p].melds[i].type) = "true"

\* in round 2 Bob has laid the 9 and the 4 of hearts off onto his run 5 6 7 8
\* and the fourth king onto his set of kings
C34_Witness ==
    /\ last.op = "layOffCard" /\ last.res = "ok" /\ last.ends = <<>>
    /\ \E p \in DOMAIN game.playerData :
        /\ \E i \in 1..Len(game.playerData[p].melds) :
                /\ game.playerData[p].melds[i].type = "run"
                /\ {4, 9} \subseteq Range(game.playerData[p].melds[i].cards)
        /\ \E i \in 1..Len(game.playerData[p].melds) :
                /\ game.playerData[p].melds[i].type = "set"
                /\ Len(game.playerData[p].melds[i].cards) = 4

\* C35: while a buy window is open, a draw, pick-up, meld or discard sent by
\* the current player (the discarder) is refused and changes nothing, and at
\* no time is more than one buy-window resolution pending.
C35_OneBuyWindowPerDiscard ==
    [][/\ (/\ game.buyPhase.active
           /\ last'.op \in {"drawCard", "pickUpDiscard", "makeMeld", "discardCard"}
           /\ last'.who = getCurrentPlayer(game)) =>
                (last'.res = "fail" /\ game' = game /\ timers' = timers)
       /\ Cardinality({i \in 1..Len(timers') : timers'[i].kind = "buy"}) <= 1]_vars

\* C36: a buy-window resolution changes a hand only by giving the buyer the
\* card the window was opened for: the window is open, that card is the top
\* of the discard pile, and the buyer's hand gains it, followed by one card
\* more (the penalty card).
C36_BuyerGetsTheDiscard ==
    [][last'.op = "buy" =>
        \A p \in DOMAIN game.playerData \cap DOMAIN game'.playerData :
            game'.playerData[p].hand # game.playerData[p].hand =>
                /\ game.buyPhase.active
                /\ Len(game.discardPile) > 0
                /\ PopValue(game.discardPile) = game.buyPhase.card
                /\ Len(game'.playerData[p].hand) = Len(game.playerData[p].hand) + 2
                /\ SubSeq(game'.playerData[p].hand, 1, Len(game.playerData[p].hand) + 1) =
                        Append(game.playerData[p].hand, game.buyPhase.card)]_vars

\* C37: the game never waits on an AI that nothing will move: while the
\* process is up and the current player of a started game in an open room is
\* an AI seat, a step of that AI's turn is scheduled, or the buy window that
\* ends its turn is waiting for its timer.
C37_AiTurnIsScheduled ==
    (/\ room = "open" /\ ~crashed /\ game.gameStarted
     /\ IsAI(game, getCurrentPlayer(game))) =>
        \E i \in 1..Len(timers) :
            \/ timers[i].kind = "buy"
            \/ /\ timers[i].kind \in {"ai1", "ai2", "ai3"}
               /\ timers[i].player = getCurrentPlayer(game)

\* C38: in every state no name occurs twice in the player list, and the
\* listed players are exactly the players that have a per-player record.
C38_PlayersListedOnce ==
    /\ \A i, j \in 1..Len(game.players) :
            game.players[i] = game.players[j] => i = j
    /\ Range(game.players) = DOMAIN game.playerData

\* C39: a start request on a room whose game is already started has no
\* effect: the hands, the melds, the stock, the discard pile, the round, the
\* current player and the scores stay as they were.
C39_StartedRoomIsNotDealtAgain ==
    [][(last'.op = "startGame" /\ game.gameStarted) =>
          /\ game'.deck = game.deck
          /\ game'.discardPile = game.discardPile
          /\ game'.currentRound = game.currentRound
          /\ game'.currentPlayerIndex = game.currentPlayerIndex
          /\ game'.playerData = game.playerData]_vars

\* C9: validateMeld(cards, 'set') returns true if and only if there are at
\* least 3 cards and every card has the rank of the first one, for every list
\* of cards of the two decks, the same suit and rank twice included.
C9_SetIffSameRank ==
    (probe.type = "set" /\ probe.result # "none") =>
        /\ probe.result \in {"true", "false"}
        /\ probe.result = "true" <=>
                /\ Len(probe.cards) >= 3
                /\ \A i \in 1..Len(probe.cards) :
                        CardRank(probe.cards[i]) = CardRank(probe.cards[1])

\* a set of three or more holding one suit and rank twice was accepted
C9_Witness ==
    /\ probe.type = "set"
    /\ probe.result = "true"
    /\ \E i, j \in 1..Len(probe.cards) :
            /\ i # j
            /\ CardRank(probe.cards[i]) = CardRank(probe.cards[j])
            /\ CardSuit(probe.cards[i]) = CardSuit(probe.cards[j])

\* C10: validateMeld(cards, 'run') returns true if and only if there are at
\* least 4 cards, all of the first card's suit, whose values (A = 1, 2..10,
\* J = Q = K = 10) sorted ascending go up by exactly 1 at each step, which is
\* to say the values are all different and span the length of the list; a
\* type other than 'set' and 'run' gives false.
C10_RunIffSuitedSequence ==
    /\ (probe.type = "run" /\ probe.result # "none") =>
        /\ probe.result \in {"true", "false"}
        /\ probe.result = "true" <=>
                /\ Len(probe.cards) >= 4
                /\ \A i \in 1..Len(probe.cards) :
                        CardSuit(probe.cards[i]) = CardSuit(probe.cards[1])
                /\ \A i, j \in 1..Len(probe.cards) :
                        /\ i # j => CardValue(probe.cards[i]) # CardValue(probe.cards[j])
                        /\ CardValue(probe.cards[i]) - CardValue(probe.cards[j]) < Len(probe.cards)
    /\ (probe.type \notin {"set", "run"} /\ probe.result # "none") =>
        probe.result = "false"

\* a run was accepted whose cards were not handed over in ascending order
C10_Witness ==
    /\ probe.type = "run"
    /\ probe.result = "true"
    /\ \E i \in 1..(Len(probe.cards) - 1) :
            CardValue(probe.cards[i]) > CardValue(probe.cards[i + 1])

====
